---- MODULE Spec2Model ----
(***************************************************************************)
(* Verification model of the concurrent harvest-and-merge pipeline of the  *)
(* isbn_harvester package: the entity merge function and the Row Store     *)
(* (harvest.py, core/store.py), the identifier gate (parse.py,             *)
(* normalize.py), the worker pool and coordinator of Harvester.run         *)
(* (harvest.py) and the checkpoint log (checkpoint.py).                    *)
(*                                                                         *)
(* The module holds several specifications over one set of variables:      *)
(*   SpecStore  - workers parsing items and upserting them into RowStore   *)
(*   SpecMerge  - merge_row folded over the orderings of observations      *)
(*   SpecRun    - one invocation of Harvester.run                          *)
(*   SpecResume - the work set computed from a checkpoint log              *)
(* Each specification leaves the variables of the others at their initial  *)
(* values.                                                                 *)
(***************************************************************************)
EXTENDS Integers, Sequences, FiniteSets, TLC

VARIABLES
    (* ---- Row Store and item loop (SpecStore) ---- *)
    rows,          \* RowStore._rows: isbn13 -> BookRow
    rows_lock,     \* RowStore._lock: the worker holding it, or NoOwner
    spc,           \* per worker: position in the item loop / in upsert
    sbook,         \* per worker: the raw item being processed
    srow,          \* per worker: the BookRow built from it
    smerged,       \* per worker: the value upsert is about to store
    sseen,         \* per worker: seen_local
    upsert_calls,  \* history: per key, the upsert calls that stored a value
    (* ---- merge orderings (SpecMerge) ---- *)
    mobs,          \* the observations of one identifier, in arrival order
    mpolicy,       \* fiction_only
    mresult,       \* the stored record after upserting mobs in order
    mpc,
    (* ---- one run of the harvester (SpecRun) ---- *)
    concurrency,   \* Harvester.concurrency
    queue,         \* q: the tasks not yet dequeued, by position in the work list
    wpc,           \* per worker: position in worker()
    wtask,         \* per worker: the task it holds (0: none)
    wpage,         \* per worker: page
    wattempt,      \* per worker: attempt of the current isbndb_get call
    wfallback,     \* per worker: the current call is the fallback search call
    wseen,         \* per worker: seen_local
    werr,          \* per worker: err_local
    wcomplete,     \* per worker: task_complete
    quota_stop,    \* Harvester.quota_stop (threading.Event)
    stop_cond,     \* max_seconds elapsed or stop file present
    ck_open,       \* CheckpointWriter._fh is not None
    ck_log,        \* per task: the lines this run appended to the checkpoint file
    cpc,           \* the coordinator's position in run()
    quota_met,     \* history: per task, the call that was answered with the quota signal
    (* ---- resume (SpecResume) ---- *)
    rlog,          \* the lines of an existing checkpoint file
    rresume,       \* Harvester.resume
    rtasks,        \* Harvester.tasks (task ids)
    rwork,         \* work
    rpc,
    (* ---- shutdown of run(): snapshotter and final write (SpecFinal) ---- *)
    snap_pc,       \* the snapshotter's position in snapshot_writer ("off": no thread)
    snap_rows,     \* snapshot_writer: rows
    last_n,        \* snapshot_writer: last_n
    stop_snap,     \* stop_snap (threading.Event)
    out_file,      \* the file at out_path: whether it exists, and the rows in it
    fin_rows,      \* run(): rows, the snapshot taken for the final write
    final_writes,  \* history: final writes that replaced the file at out_path
    ret_rows,      \* the dictionary run() returned
    (* ---- TokenBucket (SpecBucket) ---- *)
    tb_rate,       \* TokenBucket.rate, in token units per tick
    tb_capacity,   \* TokenBucket.capacity, in tokens
    tb_tokens,     \* TokenBucket.tokens, in token units
    tb_last,       \* TokenBucket.last
    tb_lock,       \* TokenBucket.lock: the caller holding it, or NoOwner
    tb_clock,      \* time.monotonic(), in ticks
    tb_pc,         \* per caller: position in take()
    tb_grants,     \* history: the clock readings of the take calls that returned
    (* ---- one call of isbndb_get (SpecGet) ---- *)
    g_pc,          \* position in isbndb_get
    g_retries,     \* retries
    g_attempt,     \* attempt
    g_backoff,     \* backoff, in seconds
    g_sent,        \* history: the HTTP attempts made (session.get calls)
    g_last,        \* history: what the last HTTP attempt met
    g_sleep,       \* history: the base of the last _sleep_jitter call and where it came from
    g_result,      \* how the call ended: "none", "ok", "quota", "auth", "failed"
    g_transient,   \* history: every attempt so far failed transiently
    (* ---- one page request of a task and its fallback (SpecFallback) ---- *)
    fb_pc,         \* position in the try block around the page request
    fb_task,       \* t: endpoint and query
    fb_page,       \* page
    fb_error,      \* the exception the primary isbndb_get raised
    fb_log,        \* the checkpoint events written
    fb_calls,      \* history: the isbndb_get calls made (endpoint, query, page)
    (* ---- the locks of a run (SpecLocks) ---- *)
    lk_owner,      \* per lock: the thread holding it, or "free"
    lk_pc,         \* per thread: outside a call, waiting for its lock, inside, leaving
    lk_method,     \* per thread: the method it has called
    (* ---- the sources of one record (SpecSources) ---- *)
    ms_sources,    \* BookRow.sources of the stored record, as the sequence of its parts
    ms_observed,   \* history: the distinct provenance keys, in the order first observed
    ms_last,       \* history: the task_query of the last merged observation
    (* ---- the statistics of a run and its progress reporter (SpecStats) ---- *)
    st_pc,         \* per worker: position in the book loop of worker()
    st_queue,      \* the tasks still in q
    st_books,      \* per worker: the books of the task not yet looped over
    st_store,      \* the keys of self.store
    st_size,       \* per worker: the value self.store.size() returned to it
    st_stats,      \* the counters of self.stats
    rp_pc,         \* the reporter: between its store.size() call and its snapshot call
    rp_size,       \* the reporter: the value self.store.size() returned to it
    rp_snap,       \* the StatsSnapshot the reporter read last, or NoSnap
    (* ---- one call of verify_rows (SpecVerify) ---- *)
    v_pc,          \* position in verify_rows
    v_input,       \* the rows argument, as given
    v_max_rows,    \* max_rows
    v_rows,        \* rows, after list() and sort
    v_verified,    \* verified: per index the row of the future, or NotVerified
    v_pending,     \* the indices of the futures as_completed has not yielded yet
    v_order,       \* history: the indices in the order as_completed yielded them
    v_failures,    \* failures
    v_results      \* the list verify_rows returned

storeVars  == <<rows, rows_lock, spc, sbook, srow, smerged, sseen, upsert_calls>>
mergeVars  == <<mobs, mpolicy, mresult, mpc>>
runVars    == <<concurrency, queue, wpc, wtask, wpage, wattempt, wfallback, wseen,
                werr, wcomplete, quota_stop, stop_cond, ck_open, ck_log, cpc, quota_met>>
resumeVars == <<rlog, rresume, rtasks, rwork, rpc>>
finalVars  == <<snap_pc, snap_rows, last_n, stop_snap, out_file, fin_rows, final_writes,
                ret_rows>>
bucketVars == <<tb_rate, tb_capacity, tb_tokens, tb_last, tb_lock, tb_clock, tb_pc,
                tb_grants>>
getVars    == <<g_pc, g_retries, g_attempt, g_backoff, g_sent, g_last, g_sleep, g_result,
                g_transient>>
fbVars     == <<fb_pc, fb_task, fb_page, fb_error, fb_log, fb_calls>>
lockVars   == <<lk_owner, lk_pc, lk_method>>
srcVars    == <<ms_sources, ms_observed, ms_last>>
verifyVars == <<v_pc, v_input, v_max_rows, v_rows, v_verified, v_pending, v_order, v_failures,
                v_results>>
statVars   == <<st_pc, st_queue, st_books, st_store, st_size, st_stats, rp_pc, rp_size, rp_snap>>
extVars    == <<finalVars, bucketVars, getVars, fbVars, lockVars, srcVars,
                statVars,
                verifyVars>>
vars       == <<storeVars, mergeVars, runVars, resumeVars, extVars>>

(***************************************************************************)
(* Bounds of the model.                                                    *)
(***************************************************************************)
MaxItems == 2        \* items one worker processes in SpecStore
MaxObs == 2          \* observations of one identifier in SpecMerge
MinScore == 3        \* Harvester.min_score used in SpecStore

Workers == {1, 2}
NoOwner == 0

Max(a, b) == IF a >= b THEN a ELSE b
Min(a, b) == IF a <= b THEN a ELSE b

(***************************************************************************)
(* Identifiers are sequences of characters.                                *)
(***************************************************************************)
Digits == <<"0", "1", "2", "3", "4", "5", "6", "7", "8", "9">>

IsDigit(c) == \E i \in 1..10 : Digits[i] = c

DigitVal(c) == (CHOOSE i \in 1..10 : Digits[i] = c) - 1

\* re.sub(r"[^0-9Xx]", "", x.strip()).upper()
normalize_isbn(x) ==
    LET kept == SelectSeq(x, LAMBDA c : IsDigit(c) \/ c = "X" \/ c = "x")
    IN  [i \in 1..Len(kept) |-> IF kept[i] = "x" THEN "X" ELSE kept[i]]

RECURSIVE WeightedSum12(_, _)
\* s = sum of digits[i] * (1 if i % 2 == 0 else 3) for the 0-based i in range(12);
\* n counts the digits still to add, position n being 1-based
WeightedSum12(digits, n) ==
    IF n = 0 THEN 0
    ELSE WeightedSum12(digits, n - 1)
         + DigitVal(digits[n]) * (IF (n - 1) % 2 = 0 THEN 1 ELSE 3)

\* the variant of is_valid_isbn13 that stops after the ISBN13_RE match
is_valid_isbn13_format_only(isbn13) ==
    LET s == normalize_isbn(isbn13)
    IN  Len(s) = 13 /\ \A i \in 1..13 : IsDigit(s[i])

is_valid_isbn13(isbn13) ==
    LET s == normalize_isbn(isbn13)
    IN  IF ~(Len(s) = 13 /\ \A i \in 1..13 : IsDigit(s[i]))
        THEN FALSE
        ELSE LET check == (10 - (WeightedSum12(s, 12) % 10)) % 10
             IN  check = DigitVal(s[13])

\* the identifier part of parse_book: book.get("isbn13") normalized, emptied
\* when it does not validate
parse_book_isbn13(book) ==
    LET isbn13 == normalize_isbn(book.isbn13)
    IN  IF isbn13 # <<>> /\ ~is_valid_isbn13(isbn13) THEN <<>> ELSE isbn13

(***************************************************************************)
(* BookRow and the merge function.  A BookRow is modelled by its           *)
(* identifier, two of the descriptive fields taken from the winner (title, *)
(* authors), two of the sticky fields (subtitle, cover_url), the relevance *)
(* attributes and the provenance attributes.  Scores that the code keeps   *)
(* as floats are integers in units of 1/10000.                             *)
(***************************************************************************)
MaxSources == 12

\* the first operand alone
OrFirst(a, b) == a

\* Python's "a or b" on strings
Or(a, b) == IF a # "" THEN a ELSE b

Truthy(s) == IF s # "" THEN 1 ELSE 0

\* math.log1p(n) / 8.0 in units of 1/10000 (n >= 1)
Log1pOver8(n) == IF n = 1 THEN 866 ELSE IF n = 2 THEN 1373 ELSE 1733

rank_score(jewish_score, pop, is_fiction, fiction_only, seen_count) ==
    LET base0 == Max(-5, jewish_score) * 500
        base  == Max(-2500, Min(15000, base0))
        s1    == (base * 9) \div 10 + pop \div 10
        s2    == s1 + (IF ~fiction_only
                       THEN (IF is_fiction # 0 THEN 1000 ELSE 0)
                       ELSE (IF is_fiction # 0 THEN 1000 ELSE -3500))
        boost == Min(1500, Log1pOver8(Max(1, seen_count)))
    IN  s2 + boost

\* sources is the "|"-joined string; here the sequence of its parts
_merge_sources(existing_sources, new_source, max_sources) ==
    IF new_source = "" THEN existing_sources
    ELSE LET parts == SelectSeq(existing_sources, LAMBDA p : p # "")
             all   == IF \E i \in 1..Len(parts) : parts[i] = new_source
                      THEN parts ELSE Append(parts, new_source)
         IN  SubSeq(all, 1, Min(Len(all), max_sources))

_completeness(r) ==
    Truthy(r.title) + Truthy(r.authors) + Truthy(r.subtitle) + Truthy(r.cover_url)

\* the variant of merge_row in which the newer observation always wins
merge_row_new_wins(existing, new, fiction_only) ==
    LET seen_count == Max(1, existing.seen_count) + 1
    IN  [new EXCEPT !.subtitle = Or(new.subtitle, existing.subtitle),
                    !.cover_url = Or(new.cover_url, existing.cover_url),
                    !.rank_score = rank_score(new.jewish_score, new.popularity_proxy,
                                              new.fiction_flag, fiction_only, seen_count),
                    !.seen_count = seen_count,
                    !.sources = _merge_sources(existing.sources, new.task_query, MaxSources)]

\* the variant of merge_row that forgets the increment of seen_count
merge_row_no_increment(existing, new, fiction_only) ==
    [new EXCEPT !.seen_count = Max(1, existing.seen_count)]

merge_row(existing, new, fiction_only) ==
    LET seen_count == Max(1, existing.seen_count) + 1
        sources    == _merge_sources(existing.sources, new.task_query, MaxSources)
        pick ==
            IF new.jewish_score > existing.jewish_score THEN new
            ELSE IF new.jewish_score = existing.jewish_score
                 THEN IF _completeness(new) > _completeness(existing) THEN new
                      ELSE IF _completeness(new) = _completeness(existing)
                              /\ new.rank_score > existing.rank_score
                           THEN new ELSE existing
                 ELSE existing
    IN  [isbn13           |-> pick.isbn13,
         title            |-> pick.title,
         authors          |-> pick.authors,
         subtitle         |-> Or(pick.subtitle, existing.subtitle),
         cover_url        |-> Or(pick.cover_url, existing.cover_url),
         jewish_score     |-> pick.jewish_score,
         fiction_flag     |-> pick.fiction_flag,
         popularity_proxy |-> pick.popularity_proxy,
         rank_score       |-> rank_score(pick.jewish_score, pick.popularity_proxy,
                                         pick.fiction_flag, fiction_only, seen_count),
         seen_count       |-> seen_count,
         sources          |-> sources,
         task_query       |-> pick.task_query]

\* the BookRow the worker builds from a parsed item (harvest.py, BookRow(...))
NewRow(isbn13, book, query, fiction_only) ==
    [isbn13           |-> isbn13,
     title            |-> book.title,
     authors          |-> book.authors,
     subtitle         |-> book.subtitle,
     cover_url        |-> book.image,
     jewish_score     |-> book.js,
     fiction_flag     |-> book.fic,
     popularity_proxy |-> book.pop,
     rank_score       |-> rank_score(book.js, book.pop, book.fic, fiction_only, 1),
     seen_count       |-> 1,
     sources          |-> <<query>>,
     task_query       |-> query]

(***************************************************************************)
(* RowStore.                                                               *)
(***************************************************************************)
\* threading.Lock taken without looking at its owner
LockFreeIgnored(owner) == TRUE

\* "with self._lock": the lock can be taken when nobody holds it
LockFree(owner) == owner = NoOwner

\* the body of RowStore.upsert under the lock: the value stored for isbn13
UpsertValue(store, isbn13, row, fiction_only) ==
    IF isbn13 \in DOMAIN store
    THEN merge_row(store[isbn13], row, fiction_only)
    ELSE row

\* self._rows[isbn13] = value
Put(store, isbn13, value) ==
    [k \in DOMAIN store \cup {isbn13} |-> IF k = isbn13 THEN value ELSE store[k]]

(***************************************************************************)
(* SpecStore: the item loop of worker() (harvest.py, "for b in books")     *)
(* with RowStore.upsert split at its lock.                                 *)
(***************************************************************************)
V1 == <<"9", "7", "8", "0", "3", "0", "6", "4", "0", "6", "1", "5", "7">>
V2 == <<"9", "7", "8", "1", "8", "6", "1", "9", "7", "2", "7", "1", "2">>

ReplaceAt(s, i, c) == [s EXCEPT ![i] = c]
DeleteAt(s, i) == SubSeq(s, 1, i - 1) \o SubSeq(s, i + 1, Len(s))

Hyphenated(s) ==
    SubSeq(s, 1, 3) \o <<"-">> \o SubSeq(s, 4, 4) \o <<"-">> \o SubSeq(s, 5, 7)
    \o <<"-">> \o SubSeq(s, 8, 12) \o <<"-">> \o SubSeq(s, 13, 13)

\* raw identifiers as the API may return them: well formed, with separators
ValidRawIsbns == {V1, Hyphenated(V1), V2}

\* wrong check digit, a digit changed, too short, too long, non-numeric payload, empty
BadRawIsbns ==
    {ReplaceAt(V1, 13, "8"), ReplaceAt(V1, 7, "5"), DeleteAt(V1, 13), V1 \o <<"0">>,
     ReplaceAt(V1, 13, "X"), ReplaceAt(V2, 7, "a"), V1 \o <<"x">>, <<>>}

Book(isbn13, title, image, js) ==
    [isbn13 |-> isbn13, title |-> title, authors |-> "", subtitle |-> "",
     image |-> image, js |-> js, pop |-> 5000, fic |-> 0]

\* the items of the pages: acceptable content under every identifier, and
\* content the title and relevance filters reject
StoreBooks ==
    {Book(i, "Book", "", 5) : i \in ValidRawIsbns \cup BadRawIsbns}
    \cup {Book(V1, "Book", "u", 5), Book(V1, "Ab", "", 5), Book(V1, "Book", "", 2)}

TaskQuery(w) == IF w = 1 THEN "q1" ELSE "q2"

NoBook == [isbn13 |-> <<>>, title |-> "", authors |-> "", subtitle |-> "",
           image |-> "", js |-> 0, pop |-> 0, fic |-> 0]
NoRow == NewRow(<<>>, NoBook, "", FALSE)
EmptyStore == [k \in {} |-> NoRow]

InitStore ==
    /\ rows = EmptyStore
    /\ rows_lock = NoOwner
    /\ spc = [w \in Workers |-> "item"]
    /\ sbook = [w \in Workers |-> NoBook]
    /\ srow = [w \in Workers |-> NoRow]
    /\ smerged = [w \in Workers |-> NoRow]
    /\ sseen = [w \in Workers |-> 0]
    /\ upsert_calls = [k \in {} |-> 0]

\* the filters of the item loop: identifier, title, relevance threshold
ItemAccepted(isbn13, book, min_score) ==
    /\ isbn13 # <<>>
    /\ ~(book.title = "" \/ Len(book.title) < 3)
    /\ ~(book.js < min_score)

\* "for b in books: seen_local += 1": the next item of the page
FetchItem(w) ==
    /\ spc[w] = "item"
    /\ sseen[w] < MaxItems
    /\ \E b \in StoreBooks : sbook' = [sbook EXCEPT ![w] = b]
    /\ sseen' = [sseen EXCEPT ![w] = @ + 1]
    /\ spc' = [spc EXCEPT ![w] = "parse"]
    /\ UNCHANGED <<rows, rows_lock, srow, smerged, upsert_calls>>
    /\ UNCHANGED <<mergeVars, runVars, resumeVars, extVars>>

\* parse_book, the "continue" filters and the BookRow built for store.upsert
FilterItem(w) ==
    /\ spc[w] = "parse"
    /\ LET isbn13 == parse_book_isbn13(sbook[w])
       IN  IF ItemAccepted(isbn13, sbook[w], MinScore)
           THEN /\ srow' = [srow EXCEPT ![w] = NewRow(isbn13, sbook[w], TaskQuery(w), mpolicy)]
                /\ spc' = [spc EXCEPT ![w] = "upsert_lock"]
                /\ sbook' = sbook
           ELSE /\ srow' = srow
                /\ spc' = [spc EXCEPT ![w] = "item"]
                /\ sbook' = [sbook EXCEPT ![w] = NoBook]
    /\ UNCHANGED <<rows, rows_lock, smerged, sseen, upsert_calls>>
    /\ UNCHANGED <<mergeVars, runVars, resumeVars, extVars>>

\* RowStore.upsert: "with self._lock"
UpsertLock(w) ==
    /\ spc[w] = "upsert_lock"
    /\ LockFree(rows_lock)
    /\ rows_lock' = w
    /\ spc' = [spc EXCEPT ![w] = "upsert_merge"]
    /\ UNCHANGED <<rows, sbook, srow, smerged, sseen, upsert_calls>>
    /\ UNCHANGED <<mergeVars, runVars, resumeVars, extVars>>

\* RowStore.upsert: the lookup and merge_fn(self._rows[isbn13], row)
UpsertMerge(w) ==
    /\ spc[w] = "upsert_merge"
    /\ smerged' = [smerged EXCEPT ![w] = UpsertValue(rows, srow[w].isbn13, srow[w], mpolicy)]
    /\ spc' = [spc EXCEPT ![w] = "upsert_store"]
    /\ UNCHANGED <<rows, rows_lock, sbook, srow, sseen, upsert_calls>>
    /\ UNCHANGED <<mergeVars, runVars, resumeVars, extVars>>

\* RowStore.upsert: self._rows[isbn13] = merged, and the lock released on return
UpsertStore(w) ==
    /\ spc[w] = "upsert_store"
    /\ rows' = Put(rows, srow[w].isbn13, smerged[w])
    /\ upsert_calls' = Put(upsert_calls, srow[w].isbn13,
                           IF srow[w].isbn13 \in DOMAIN upsert_calls
                           THEN upsert_calls[srow[w].isbn13] + 1 ELSE 1)
    /\ rows_lock' = NoOwner
    /\ spc' = [spc EXCEPT ![w] = "item"]
    /\ sbook' = [sbook EXCEPT ![w] = NoBook]
    /\ srow' = [srow EXCEPT ![w] = NoRow]
    /\ smerged' = [smerged EXCEPT ![w] = NoRow]
    /\ UNCHANGED sseen
    /\ UNCHANGED <<mergeVars, runVars, resumeVars, extVars>>

\* the variables of the other specifications at rest
IdleMerge ==
    /\ mobs = <<>>
    /\ mpolicy = FALSE
    /\ mresult = EmptyStore
    /\ mpc = "idle"

IdleRun ==
    /\ concurrency = 0
    /\ queue = <<>>
    /\ wpc = [w \in Workers |-> "idle"]
    /\ wtask = [w \in Workers |-> 0]
    /\ wpage = [w \in Workers |-> 0]
    /\ wattempt = [w \in Workers |-> 0]
    /\ wfallback = [w \in Workers |-> FALSE]
    /\ wseen = [w \in Workers |-> 0]
    /\ werr = [w \in Workers |-> 0]
    /\ wcomplete = [w \in Workers |-> FALSE]
    /\ quota_stop = FALSE
    /\ stop_cond = FALSE
    /\ ck_open = FALSE
    /\ ck_log = <<>>
    /\ cpc = "idle"
    /\ quota_met = <<>>

IdleResume ==
    /\ rlog = <<>>
    /\ rresume = FALSE
    /\ rtasks = <<>>
    /\ rwork = <<>>
    /\ rpc = "idle"

IdleFinal ==
    /\ snap_pc = "off"
    /\ snap_rows = EmptyStore
    /\ last_n = 0
    /\ stop_snap = FALSE
    /\ out_file = [exists |-> FALSE, rows |-> EmptyStore]
    /\ fin_rows = EmptyStore
    /\ final_writes = 0
    /\ ret_rows = EmptyStore

IdleBucket ==
    /\ tb_rate = 0
    /\ tb_capacity = 0
    /\ tb_tokens = 0
    /\ tb_last = 0
    /\ tb_lock = NoOwner
    /\ tb_clock = 0
    /\ tb_pc = [c \in Workers |-> "idle"]
    /\ tb_grants = <<>>

NoResponse == [net |-> "none", status |-> 0, body |-> "empty", ra |-> -1]
NoSleep == [base |-> 0, from |-> "none"]

IdleGet ==
    /\ g_pc = "off"
    /\ g_retries = 0
    /\ g_attempt = 0
    /\ g_backoff = 0
    /\ g_sent = 0
    /\ g_last = NoResponse
    /\ g_sleep = NoSleep
    /\ g_result = "none"
    /\ g_transient = TRUE

NoError == [kind |-> "none", text401 |-> FALSE]

IdleFb ==
    /\ fb_pc = "off"
    /\ fb_task = [endpoint |-> "search", query |-> "none"]
    /\ fb_page = 0
    /\ fb_error = NoError
    /\ fb_log = <<>>
    /\ fb_calls = <<>>

Locks == {"limiter", "store", "checkpoint", "stats"}

LockThreads == {"worker1", "worker2", "snapshotter", "coordinator"}

IdleLocks ==
    /\ lk_owner = [l \in Locks |-> "free"]
    /\ lk_pc = [th \in LockThreads |-> "off"]
    /\ lk_method = [th \in LockThreads |-> "none"]

IdleSources ==
    /\ ms_sources = <<>>
    /\ ms_observed = <<>>
    /\ ms_last = "none"

StatWorkers == {"worker1", "worker2"}

NoSnap == [tasks_total |-> 0 - 1]

\* StatsTracker.__init__ with tasks_total = 0
NewStats == [tasks_total |-> 0, tasks_done |-> 0, books_seen |-> 0, kept |-> 0, unique13 |-> 0]

IdleStats ==
    /\ st_pc = [w \in StatWorkers |-> "exit"]
    /\ st_queue = 0
    /\ st_books = [w \in StatWorkers |-> 0]
    /\ st_store = {}
    /\ st_size = [w \in StatWorkers |-> 0]
    /\ st_stats = NewStats
    /\ rp_pc = "idle"
    /\ rp_size = 0
    /\ rp_snap = NoSnap

IdleVerify ==
    /\ v_pc = "off"
    /\ v_input = <<>>
    /\ v_max_rows = 0
    /\ v_rows = <<>>
    /\ v_verified = <<>>
    /\ v_pending = {}
    /\ v_order = <<>>
    /\ v_failures = 0
    /\ v_results = <<>>

IdleExt == IdleFinal /\ IdleBucket /\ IdleGet /\ IdleFb /\ IdleLocks /\ IdleSources /\ IdleStats /\ IdleVerify

StoreInit == InitStore /\ IdleMerge /\ IdleRun /\ IdleResume /\ IdleExt

StoreNext ==
    \E w \in Workers :
        FetchItem(w) \/ FilterItem(w) \/ UpsertLock(w) \/ UpsertMerge(w) \/ UpsertStore(w)

SpecStore == StoreInit /\ [][StoreNext]_vars

(***************************************************************************)
(* C1.  No upsert is lost: for every identifier of the store, seen_count   *)
(* of the stored record equals the number of upsert calls that stored a    *)
(* value for it, whatever the interleaving of the workers (the first       *)
(* insert counts 1, every later upsert adds exactly 1).                    *)
(***************************************************************************)
SeenCountIsUpsertCount ==
    /\ DOMAIN rows = DOMAIN upsert_calls
    /\ \A k \in DOMAIN rows : rows[k].seen_count = upsert_calls[k]

\* two workers contend for one identifier already upserted twice
SeenCountWitness ==
    \E k \in DOMAIN rows :
        /\ rows[k].seen_count >= 2
        /\ \E w1, w2 \in Workers :
             /\ w1 # w2
             /\ spc[w1] = "upsert_store" /\ srow[w1].isbn13 = k
             /\ spc[w2] = "upsert_lock" /\ srow[w2].isbn13 = k

(***************************************************************************)
(* C8.  Checksum gate: every key of the Row Store, and the identifier of   *)
(* every row handed to upsert, is a 13-digit string whose weighted digit   *)
(* sum (weights 1,3,1,3,...) is a multiple of 10; an item is handed to     *)
(* upsert only when its normalized raw identifier is such a string, so     *)
(* items with a wrong length, a wrong check digit or a non-numeric         *)
(* payload are skipped.                                                    *)
(***************************************************************************)
RECURSIVE DigitSum13(_, _)
DigitSum13(s, n) ==
    IF n = 0 THEN 0
    ELSE DigitSum13(s, n - 1) + DigitVal(s[n]) * (IF n % 2 = 1 THEN 1 ELSE 3)

WellFormedIsbn13(s) ==
    /\ Len(s) = 13
    /\ \A i \in 1..13 : s[i] \in {"0", "1", "2", "3", "4", "5", "6", "7", "8", "9"}
    /\ DigitSum13(s, 13) % 10 = 0

InUpsert(w) == spc[w] \in {"upsert_lock", "upsert_merge", "upsert_store"}

ChecksumGate ==
    /\ \A k \in DOMAIN rows : WellFormedIsbn13(k) /\ rows[k].isbn13 = k
    /\ \A w \in Workers :
         InUpsert(w) =>
            /\ WellFormedIsbn13(srow[w].isbn13)
            /\ srow[w].isbn13 = normalize_isbn(sbook[w].isbn13)

\* a row is stored, one worker is about to store a row whose raw identifier
\* had separators, the other is parsing an item with a wrong check digit
ChecksumGateWitness ==
    /\ DOMAIN rows # {}
    /\ \E w1, w2 \in Workers :
         /\ spc[w1] = "upsert_store" /\ sbook[w1].isbn13 = Hyphenated(V1)
         /\ spc[w2] = "parse" /\ sbook[w2].isbn13 = ReplaceAt(V1, 13, "8")
         /\ sbook[w2].title = "Book" /\ sbook[w2].js >= MinScore

(***************************************************************************)
(* SpecMerge: the observations of one identifier upserted one after the    *)
(* other (RowStore.upsert with merge_row as merge function), in every      *)
(* arrival order.                                                          *)
(***************************************************************************)
\* observations of identifier V1 as worker() builds them from parsed items
MergeObs(fiction_only) ==
    {NewRow(V1, [isbn13 |-> V1, title |-> t, authors |-> "", subtitle |-> st,
                 image |-> im, js |-> js, pop |-> 5000, fic |-> 0], q, fiction_only) :
        t \in {"Book", "Tome"}, st \in {"", "S"}, im \in {"", "u"},
        js \in {5, 7}, q \in {"q1", "q2"}}

InitMerge ==
    /\ mpolicy \in BOOLEAN
    /\ \E n \in 1..MaxObs : mobs \in [1..n -> MergeObs(mpolicy)]
    /\ mresult = EmptyStore
    /\ mpc = 0

\* store.upsert(isbn13, row, merge_fn) of the next observation
MergeUpsert ==
    /\ mpc \in 0..(Len(mobs) - 1)
    /\ LET row == mobs[mpc + 1]
       IN  mresult' = Put(mresult, row.isbn13, UpsertValue(mresult, row.isbn13, row, mpolicy))
    /\ mpc' = mpc + 1
    /\ UNCHANGED <<mobs, mpolicy>>
    /\ UNCHANGED <<storeVars, runVars, resumeVars, extVars>>

MergeInit == InitMerge /\ InitStore /\ IdleRun /\ IdleResume /\ IdleExt

MergeNext == MergeUpsert

SpecMerge == MergeInit /\ [][MergeNext]_vars

RECURSIVE StoreAfter(_, _, _)
\* the store after upserting the first n observations of obs into an empty store
StoreAfter(obs, n, fiction_only) ==
    IF n = 0 THEN EmptyStore
    ELSE LET before == StoreAfter(obs, n - 1, fiction_only)
         IN  Put(before, obs[n].isbn13,
                 UpsertValue(before, obs[n].isbn13, obs[n], fiction_only))

Orderings(n) == {f \in [1..n -> 1..n] : \A i, j \in 1..n : f[i] = f[j] => i = j}

SeqSet(q) == {q[i] : i \in 1..Len(q)}

\* field for field, sources as a set
SameRecord(a, b) ==
    /\ [a EXCEPT !.sources = <<>>] = [b EXCEPT !.sources = <<>>]
    /\ SeqSet(a.sources) = SeqSet(b.sources)

(***************************************************************************)
(* C2.  Arrival-order invariance: once all observations of an identifier   *)
(* are upserted, the stored record equals, field for field and with        *)
(* sources compared as a set, the record obtained by upserting the same    *)
(* observations in any other order.                                        *)
(***************************************************************************)
MergeOrderInvariant ==
    mpc = Len(mobs) =>
        \A f \in Orderings(Len(mobs)) :
            LET permuted == [i \in 1..Len(mobs) |-> mobs[f[i]]]
            IN  SameRecord(mresult[V1], StoreAfter(permuted, Len(mobs), mpolicy)[V1])

(***************************************************************************)
(* SpecResume: the head of Harvester.run, which computes the work list     *)
(* from the task list and an existing checkpoint file.  A line of the file *)
(* is an event object written by CheckpointWriter.write, a line that       *)
(* json.loads rejects ("corrupt", e.g. a truncated write), or a line that  *)
(* is valid JSON but no object ("nonobject").  Tasks are named by their    *)
(* task_id.                                                                *)
(***************************************************************************)
MaxLogLen == 3

Event(type, tid) == [kind |-> "event", type |-> type, task_id |-> tid]
CorruptLine == [kind |-> "corrupt", type |-> "", task_id |-> ""]
NonObjectLine == [kind |-> "nonobject", type |-> "", task_id |-> ""]

\* the variant of read_completed_tasks that takes every terminal event for a completion
RECURSIVE read_completed_tasks_any_terminal(_, _)
read_completed_tasks_any_terminal(lines, n) ==
    IF n = 0 THEN {}
    ELSE read_completed_tasks_any_terminal(lines, n - 1)
         \cup (IF lines[n].kind = "event"
                  /\ lines[n].type \in {"task_done", "task_incomplete"}
               THEN {lines[n].task_id} ELSE {})

RECURSIVE ScanLines(_, _, _)
\* the "for line in f" loop of read_completed_tasks from line i on
ScanLines(lines, i, done) ==
    IF i > Len(lines) THEN done
    ELSE IF lines[i].kind = "corrupt"
         THEN ScanLines(lines, i + 1, done)            \* json.loads raises: continue
    ELSE IF lines[i].kind = "nonobject"
         THEN done                                     \* rec.get raises: return done
    ELSE IF lines[i].type = "task_done" /\ lines[i].task_id # ""
         THEN ScanLines(lines, i + 1, done \cup {lines[i].task_id})
    ELSE ScanLines(lines, i + 1, done)

\* read_completed_tasks of a file holding the first n lines of lines (a
\* missing file reads as the empty one)
read_completed_tasks(lines, n) == ScanLines(SubSeq(lines, 1, n), 1, {})

\* work = [t for t in self.tasks if task_id(t) not in completed]
WorkList(tasks, completed) == SelectSeq(tasks, LAMBDA t : t \notin completed)

\* the lines earlier runs can have left in the file
ResumeLines ==
    {Event(ty, t) : ty \in {"task_done", "task_incomplete"}, t \in {"T1", "T2", "T3"}}
    \cup {Event("task_done", ""), CorruptLine}

TaskLists == {<<"T1", "T2", "T3">>, <<"T3", "T1">>, <<"T2", "T2">>}

InitResume ==
    /\ \E n \in 0..MaxLogLen : rlog \in [1..n -> ResumeLines]
    /\ rresume \in BOOLEAN
    /\ rtasks \in TaskLists
    /\ rwork = <<>>
    /\ rpc = "start"

\* run(): completed, work and the optional random.shuffle(work)
BuildWork ==
    /\ rpc = "start"
    /\ LET completed == IF rresume THEN read_completed_tasks(rlog, Len(rlog)) ELSE {}
           work == WorkList(rtasks, completed)
       IN  \E shuffle_tasks \in BOOLEAN :
             IF shuffle_tasks
             THEN \E f \in Orderings(Len(work)) :
                    rwork' = [i \in 1..Len(work) |-> work[f[i]]]
             ELSE rwork' = work
    /\ rpc' = "built"
    /\ UNCHANGED <<rlog, rresume, rtasks>>
    /\ UNCHANGED <<storeVars, mergeVars, runVars, extVars>>

ResumeInit == InitResume /\ InitStore /\ IdleMerge /\ IdleRun /\ IdleExt

ResumeNext == BuildWork

SpecResume == ResumeInit /\ [][ResumeNext]_vars

(***************************************************************************)
(* C6.  With resume enabled the work set is exactly the tasks of the task  *)
(* list whose task id has no task_done event in the checkpoint log; with   *)
(* resume disabled it is the whole task list.  (The log holds the lines    *)
(* that CheckpointWriter and an interrupted write can leave.)              *)
(***************************************************************************)
HasTaskDone(log, t) ==
    \E i \in 1..Len(log) :
        log[i].kind = "event" /\ log[i].type = "task_done" /\ log[i].task_id = t

NumTasks == 2        \* len(work)
Retries == 1         \* Harvester.retries
PageSize == 2        \* Harvester.page_size
MaxPerTask == 3      \* Harvester.max_per_task

Tasks == 1..NumTasks

TaskIds == <<"T1", "T2", "T3", "T4">>

\* task_id(t) of the i-th task of the work list
task_id(i) == TaskIds[i]

\* t.endpoint of the i-th task of the work list
TaskEndpoint(i) ==
    IF i % 3 = 1 THEN "publisher" ELSE IF i % 3 = 2 THEN "search" ELSE "subject"

\* should_stop without the quota flag
should_stop_ignoring_quota(quota, cond) == cond

\* Harvester.should_stop: quota flag, time budget, stop file
should_stop(quota, cond) == quota \/ cond

\* the type of the terminal event when task_complete is not consulted
TerminalTypeAlwaysDone(task_complete) == "task_done"

\* "task_done" if task_complete else "task_incomplete"
TerminalType(task_complete) == IF task_complete THEN "task_done" ELSE "task_incomplete"

\* an event line of this run: of its fields, type and task_id are what
\* read_completed_tasks and the claims about the log read
CkEvent(type, t) == [kind |-> "event", type |-> type, task_id |-> task_id(t)]

\* CheckpointWriter.write: nothing is written once the file handle is gone
ck_write(log, open, t, ev) == IF open THEN [log EXCEPT ![t] = Append(@, ev)] ELSE log

\* what one HTTP attempt of isbndb_get can meet: a page of n books, a
\* transient failure (429/5xx, network error, bad JSON), the daily-quota
\* message, 401, 403
Responses ==
    {[kind |-> "ok", n |-> n] : n \in 0..PageSize}
    \cup {[kind |-> k, n |-> 0] : k \in {"transient", "quota", "auth401", "auth403"}}

Alive(w) == wpc[w] \notin {"off", "exit"}

InitRun ==
    /\ concurrency \in 1..Cardinality(Workers)
    /\ queue = [i \in 1..NumTasks |-> i]
    /\ wpc = [w \in Workers |-> IF w <= concurrency THEN "loop" ELSE "off"]
    /\ wtask = [w \in Workers |-> 0]
    /\ wpage = [w \in Workers |-> 0]
    /\ wattempt = [w \in Workers |-> 0]
    /\ wfallback = [w \in Workers |-> FALSE]
    /\ wseen = [w \in Workers |-> 0]
    /\ werr = [w \in Workers |-> 0]
    /\ wcomplete = [w \in Workers |-> FALSE]
    /\ quota_stop = FALSE
    /\ stop_cond = FALSE
    /\ ck_open = TRUE
    /\ ck_log = [t \in Tasks |-> <<>>]
    /\ cpc = "poll"
    /\ quota_met = [t \in Tasks |-> "none"]

\* worker(): "while True: if self.should_stop(): return"
WLoop(w) ==
    /\ wpc[w] = "loop"
    /\ wpc' = [wpc EXCEPT ![w] = IF should_stop(quota_stop, stop_cond) THEN "exit" ELSE "dequeue"]
    /\ UNCHANGED <<concurrency, queue, wtask, wpage, wattempt, wfallback, wseen, werr,
                   wcomplete, quota_stop, stop_cond, ck_open, ck_log, cpc, quota_met>>
    /\ UNCHANGED <<storeVars, mergeVars, resumeVars, extVars>>

\* worker(): q.get_nowait() and the task's locals
WDequeue(w) ==
    /\ wpc[w] = "dequeue"
    /\ IF queue = <<>>
       THEN /\ wpc' = [wpc EXCEPT ![w] = "exit"]
            /\ UNCHANGED <<queue, wtask, wpage, wseen, werr, wcomplete>>
       ELSE /\ wpc' = [wpc EXCEPT ![w] = "page"]
            /\ queue' = Tail(queue)
            /\ wtask' = [wtask EXCEPT ![w] = Head(queue)]
            /\ wpage' = [wpage EXCEPT ![w] = 1]
            /\ wseen' = [wseen EXCEPT ![w] = 0]
            /\ werr' = [werr EXCEPT ![w] = 0]
            /\ wcomplete' = [wcomplete EXCEPT ![w] = FALSE]
    /\ UNCHANGED <<concurrency, wattempt, wfallback, quota_stop, stop_cond, ck_open,
                   ck_log, cpc, quota_met>>
    /\ UNCHANGED <<storeVars, mergeVars, resumeVars, extVars>>

\* worker(): "while seen_local < self.max_per_task: if self.should_stop(): raise",
\* then self.limiter.take(1.0), build_task_request and the entry of isbndb_get;
\* when the loop ends, task_complete = True
WPage(w) ==
    /\ wpc[w] = "page"
    /\ IF wseen[w] < MaxPerTask
       THEN IF should_stop(quota_stop, stop_cond)
            THEN /\ wpc' = [wpc EXCEPT ![w] = "except"]
                 /\ UNCHANGED <<wcomplete, wattempt, wfallback>>
            ELSE /\ wpc' = [wpc EXCEPT ![w] = "request"]
                 /\ wattempt' = [wattempt EXCEPT ![w] = 1]
                 /\ wfallback' = [wfallback EXCEPT ![w] = FALSE]
                 /\ UNCHANGED wcomplete
       ELSE /\ wpc' = [wpc EXCEPT ![w] = "finally"]
            /\ wcomplete' = [wcomplete EXCEPT ![w] = TRUE]
            /\ UNCHANGED <<wattempt, wfallback>>
    /\ UNCHANGED <<concurrency, queue, wtask, wpage, wseen, werr,
                   quota_stop, stop_cond, ck_open, ck_log, cpc, quota_met>>
    /\ UNCHANGED <<storeVars, mergeVars, resumeVars, extVars>>

\* where an ISBNdbError raised by isbndb_get takes the worker: the handler of
\* the primary call falls back for publisher/subject unless "401" is in the
\* message; an error of the fallback call, raised inside that handler, leaves
\* the page loop
AfterError(w, is401) ==
    IF ~wfallback[w] /\ TaskEndpoint(wtask[w]) \in {"publisher", "subject"} /\ ~is401
    THEN "fallback" ELSE "except"

\* one HTTP attempt of isbndb_get (session.get and its outcome) and, for a
\* page of books, the item loop and the end of the page iteration; attempt
\* is a local of isbndb_get and is gone when the call returns or raises
WRequest(w) ==
    /\ wpc[w] = "request"
    /\ \E r \in Responses :
         CASE r.kind = "ok" ->
                /\ wseen' = [wseen EXCEPT ![w] = @ + r.n]
                /\ IF r.n < PageSize
                   THEN /\ wpc' = [wpc EXCEPT ![w] = "finally"]
                        /\ wcomplete' = [wcomplete EXCEPT ![w] = TRUE]
                        /\ UNCHANGED wpage
                   ELSE /\ wpc' = [wpc EXCEPT ![w] = "page"]
                        /\ wpage' = [wpage EXCEPT ![w] = @ + 1]
                        /\ UNCHANGED wcomplete
                /\ wattempt' = [wattempt EXCEPT ![w] = 0]
                /\ wfallback' = [wfallback EXCEPT ![w] = FALSE]
                /\ UNCHANGED quota_met
           [] r.kind = "transient" ->
                /\ IF wattempt[w] <= Retries
                   THEN /\ wattempt' = [wattempt EXCEPT ![w] = @ + 1]
                        /\ UNCHANGED <<wpc, wfallback>>
                   ELSE /\ wpc' = [wpc EXCEPT ![w] = AfterError(w, FALSE)]
                        /\ wattempt' = [wattempt EXCEPT ![w] = 0]
                        /\ wfallback' = [wfallback EXCEPT ![w] = FALSE]
                /\ UNCHANGED <<wseen, wpage, wcomplete, quota_met>>
           [] r.kind = "quota" ->
                /\ quota_met' = [quota_met EXCEPT ![wtask[w]] =
                                     IF wfallback[w] THEN "fallback" ELSE "primary"]
                /\ wpc' = [wpc EXCEPT ![w] = IF wfallback[w] THEN "except" ELSE "quota_set"]
                /\ wattempt' = [wattempt EXCEPT ![w] = 0]
                /\ wfallback' = [wfallback EXCEPT ![w] = FALSE]
                /\ UNCHANGED <<wseen, wpage, wcomplete>>
           [] r.kind \in {"auth401", "auth403"} ->
                /\ wpc' = [wpc EXCEPT ![w] = AfterError(w, r.kind = "auth401")]
                /\ wattempt' = [wattempt EXCEPT ![w] = 0]
                /\ wfallback' = [wfallback EXCEPT ![w] = FALSE]
                /\ UNCHANGED <<wseen, wpage, wcomplete, quota_met>>
    /\ UNCHANGED <<concurrency, queue, wtask, werr, quota_stop, stop_cond,
                   ck_open, ck_log, cpc>>
    /\ UNCHANGED <<storeVars, mergeVars, resumeVars, extVars>>

\* "except ISBNdbQuotaError": self.quota_stop.set()
WQuotaSet(w) ==
    /\ wpc[w] = "quota_set"
    /\ quota_stop' = TRUE
    /\ wpc' = [wpc EXCEPT ![w] = "quota_ck"]
    /\ UNCHANGED <<concurrency, queue, wtask, wpage, wattempt, wfallback, wseen, werr,
                   wcomplete, stop_cond, ck_open, ck_log, cpc, quota_met>>
    /\ UNCHANGED <<storeVars, mergeVars, resumeVars, extVars>>

\* "except ISBNdbQuotaError": the quota_exhausted event, then raise
WQuotaCk(w) ==
    /\ wpc[w] = "quota_ck"
    /\ ck_log' = ck_write(ck_log, ck_open, wtask[w], CkEvent("quota_exhausted", wtask[w]))
    /\ wpc' = [wpc EXCEPT ![w] = "except"]
    /\ UNCHANGED <<concurrency, queue, wtask, wpage, wattempt, wfallback, wseen, werr,
                   wcomplete, quota_stop, stop_cond, ck_open, cpc, quota_met>>
    /\ UNCHANGED <<storeVars, mergeVars, resumeVars, extVars>>

\* "except ISBNdbError": the task_fallback event and the entry of the second
\* isbndb_get, on the search endpoint
WFallback(w) ==
    /\ wpc[w] = "fallback"
    /\ ck_log' = ck_write(ck_log, ck_open, wtask[w], CkEvent("task_fallback", wtask[w]))
    /\ wfallback' = [wfallback EXCEPT ![w] = TRUE]
    /\ wattempt' = [wattempt EXCEPT ![w] = 1]
    /\ wpc' = [wpc EXCEPT ![w] = "request"]
    /\ UNCHANGED <<concurrency, queue, wtask, wpage, wseen, werr, wcomplete, quota_stop,
                   stop_cond, ck_open, cpc,
                   quota_met>>
    /\ UNCHANGED <<storeVars, mergeVars, resumeVars, extVars>>

\* "except Exception as e": err_local, the task_error event
WExcept(w) ==
    /\ wpc[w] = "except"
    /\ werr' = [werr EXCEPT ![w] = @ + 1]
    /\ ck_log' = ck_write(ck_log, ck_open, wtask[w], CkEvent("task_error", wtask[w]))
    /\ wpc' = [wpc EXCEPT ![w] = "finally"]
    /\ UNCHANGED <<concurrency, queue, wtask, wpage, wattempt, wfallback, wseen,
                   wcomplete, quota_stop, stop_cond, ck_open, cpc, quota_met>>
    /\ UNCHANGED <<storeVars, mergeVars, resumeVars, extVars>>

\* a worker that gives up after a task with an error
after_task_stops_on_error(err_local) == IF err_local > 0 THEN "exit" ELSE "loop"

\* worker(): after the finally block of a task the "while True" loop goes on,
\* whatever err_local is
after_task(err_local) == "loop"

\* "finally": the terminal event, q.task_done()
WFinally(w) ==
    /\ wpc[w] = "finally"
    /\ ck_log' = ck_write(ck_log, ck_open, wtask[w], CkEvent(TerminalType(wcomplete[w]), wtask[w]))
    /\ wpc' = [wpc EXCEPT ![w] = after_task(werr[w])]
    /\ wtask' = [wtask EXCEPT ![w] = 0]
    /\ wpage' = [wpage EXCEPT ![w] = 0]
    /\ wattempt' = [wattempt EXCEPT ![w] = 0]
    /\ wfallback' = [wfallback EXCEPT ![w] = FALSE]
    /\ wseen' = [wseen EXCEPT ![w] = 0]
    /\ werr' = [werr EXCEPT ![w] = 0]
    /\ wcomplete' = [wcomplete EXCEPT ![w] = FALSE]
    /\ UNCHANGED <<concurrency, queue, quota_stop, stop_cond, ck_open, cpc, quota_met>>
    /\ UNCHANGED <<storeVars, mergeVars, resumeVars, extVars>>

\* run(): "while any(t.is_alive() ...)" and "if self.should_stop(): break"
CPoll ==
    /\ cpc = "poll"
    /\ IF (\A w \in Workers : ~Alive(w)) \/ should_stop(quota_stop, stop_cond)
       THEN cpc' = "join"
       ELSE cpc' = "sleep"
    /\ UNCHANGED <<concurrency, queue, wpc, wtask, wpage, wattempt, wfallback, wseen, werr,
                   wcomplete, quota_stop, stop_cond, ck_open, ck_log, quota_met>>
    /\ UNCHANGED <<storeVars, mergeVars, resumeVars, extVars>>

\* run(): time.sleep(0.1)
CSleep ==
    /\ cpc = "sleep"
    /\ cpc' = "poll"
    /\ UNCHANGED <<concurrency, queue, wpc, wtask, wpage, wattempt, wfallback, wseen, werr,
                   wcomplete, quota_stop, stop_cond, ck_open, ck_log, quota_met>>
    /\ UNCHANGED <<storeVars, mergeVars, resumeVars, extVars>>

\* run(): "for th in threads: th.join(timeout=1.0)" returns when every
\* worker has ended or has outlasted its timeout, which takes a worker that
\* is inside isbndb_get (a network call, or the backoff sleep before a
\* retry) or waiting in limiter.take; the other steps of a worker take far
\* less than the timeout
CJoin ==
    /\ cpc = "join"
    /\ \A w \in Workers : ~Alive(w) \/ wpc[w] = "request"
    /\ cpc' = "close"
    /\ UNCHANGED <<concurrency, queue, wpc, wtask, wpage, wattempt, wfallback, wseen, werr,
                   wcomplete, quota_stop, stop_cond, ck_open, ck_log, quota_met>>
    /\ UNCHANGED <<storeVars, mergeVars, resumeVars, extVars>>

\* run(): "finally: ... self.close()" closes the checkpoint writer
CClose ==
    /\ cpc = "close"
    /\ ck_open' = FALSE
    /\ cpc' = "final_write"
    /\ UNCHANGED <<concurrency, queue, wpc, wtask, wpage, wattempt, wfallback, wseen, werr,
                   wcomplete, quota_stop, stop_cond, ck_log, quota_met>>
    /\ UNCHANGED <<storeVars, mergeVars, resumeVars, extVars>>

\* run(): the final write_full_csv and the return
CFinalWrite ==
    /\ cpc = "final_write"
    /\ cpc' = "done"
    /\ UNCHANGED <<concurrency, queue, wpc, wtask, wpage, wattempt, wfallback, wseen, werr,
                   wcomplete, quota_stop, stop_cond, ck_open, ck_log, quota_met>>
    /\ UNCHANGED <<storeVars, mergeVars, resumeVars, extVars>>

\* the environment: the stop file appears or max_seconds elapses
StopSignal ==
    /\ ~stop_cond
    /\ cpc # "done"
    /\ stop_cond' = TRUE
    /\ UNCHANGED <<concurrency, queue, wpc, wtask, wpage, wattempt, wfallback, wseen, werr,
                   wcomplete, quota_stop, ck_open, ck_log, cpc, quota_met>>
    /\ UNCHANGED <<storeVars, mergeVars, resumeVars, extVars>>

RunInit == InitRun /\ InitStore /\ IdleMerge /\ IdleResume /\ IdleExt

RunNext ==
    \/ \E w \in Workers :
         \/ WLoop(w) \/ WDequeue(w) \/ WPage(w) \/ WRequest(w)
         \/ WQuotaSet(w) \/ WQuotaCk(w) \/ WFallback(w) \/ WExcept(w) \/ WFinally(w)
    \/ CPoll \/ CSleep \/ CJoin \/ CClose \/ CFinalWrite
    \/ StopSignal

SpecRun == RunInit /\ [][RunNext]_vars

WorkerStep(w) ==
    \/ WLoop(w) \/ WDequeue(w) \/ WPage(w) \/ WRequest(w) \/ WQuotaSet(w)
    \/ WQuotaCk(w) \/ WFallback(w) \/ WExcept(w) \/ WFinally(w)

\* the worker threads keep running: every step of a worker ends (the API
\* calls have a timeout and a bounded number of attempts, the rate limiter
\* refills), so while some worker is alive some worker takes a step
\* and the behaviours in which neither the stop file appears nor max_seconds
\* elapses; the quota flag can still be set by a worker
RunNextUnstopped ==
    \/ \E w \in Workers : WorkerStep(w)
    \/ CPoll \/ CSleep \/ CJoin \/ CClose \/ CFinalWrite

SpecRunFair ==
    /\ RunInit
    /\ [][RunNextUnstopped]_vars
    /\ WF_vars(\E w \in Workers : WorkerStep(w))

(***************************************************************************)
(* Readings of the run's state and checkpoint log used by the claims.      *)
(***************************************************************************)
RECURSIVE FlattenLog(_, _)
\* the lines of the tasks 1..n, one task after the other
FlattenLog(log, n) == IF n = 0 THEN <<>> ELSE FlattenLog(log, n - 1) \o log[n]

\* the lines this run appended to the checkpoint file
RunLog == FlattenLog(ck_log, NumTasks)

CountType(q, types) == Cardinality({i \in 1..Len(q) : q[i].type \in types})

TerminalTypes == {"task_done", "task_incomplete"}

\* the tasks' ids in work-list order
RunTasks == [i \in 1..NumTasks |-> task_id(i)]

InQueue(t) == \E i \in 1..Len(queue) : queue[i] = t

Held(t) == \E w \in Workers : wtask[w] = t

\* t was dequeued and its worker has left the task's finally block
Finished(t) == ~InQueue(t) /\ ~Held(t)

\* w takes a WRequest step: it sends one HTTP attempt
SendsRequest(w) ==
    wpc[w] = "request" /\ (wpc'[w] # "request" \/ wattempt'[w] # wattempt[w])

(***************************************************************************)
(* C3.  Once a worker has set the quota flag, no worker sends a further    *)
(* HTTP attempt of a call it is in (a retry attempt inside isbndb_get or a *)
(* fallback request), and the coordinator's next check of its poll loop    *)
(* leaves the loop instead of sleeping again.  The first attempt of a page *)
(* fetch whose should_stop check came before the flag is granted here: the *)
(* statement is the claim without that race.                               *)
(***************************************************************************)
NoRetryOrFallbackAfterQuotaStop ==
    [][quota_stop =>
         /\ \A w \in Workers :
              SendsRequest(w) => (wattempt[w] = 1 /\ ~wfallback[w])
         /\ cpc = "poll" => cpc' # "sleep"]_vars

(***************************************************************************)
(* C4.  When the handling of a quota-exhausted error of a task's call      *)
(* (primary or fallback) has reached the task's finally block, the quota   *)
(* flag is set and, the checkpoint writer being open, the task's lines     *)
(* hold a quota_exhausted event.                                           *)
(***************************************************************************)
QuotaErrorSetsFlagAndEvent ==
    \A w \in Workers :
        (wpc[w] = "finally" /\ quota_met[wtask[w]] # "none") =>
            /\ quota_stop
            /\ ck_open => CountType(ck_log[wtask[w]], {"quota_exhausted"}) >= 1

(***************************************************************************)
(* C5.  Every task that was dequeued and whose worker has left it has      *)
(* exactly one terminal (task_done / task_incomplete) event in the log,    *)
(* also when the coordinator closed the checkpoint writer meanwhile.       *)
(***************************************************************************)
OneTerminalEventPerTask ==
    \A t \in Tasks : Finished(t) => CountType(ck_log[t], TerminalTypes) = 1

(***************************************************************************)
(* C7.  A task whose page loop ended in an unrecovered error has a         *)
(* task_error event followed by its terminal event.  The resumed run reads *)
(* the log of this run with read_completed_tasks and builds its work list  *)
(* from the same tasks.                                                    *)
(***************************************************************************)
ErrorThenTerminal(q) ==
    \E i, j \in 1..Len(q) :
        i < j /\ q[i].type = "task_error" /\ q[j].type \in TerminalTypes

\* the work list a later run with resume enabled builds from this run's log
ResumedWork == WorkList(RunTasks, read_completed_tasks(RunLog, Len(RunLog)))

\* C7 as claimed: the errored task is treated as resolved, the resumed run
\* does not put it in its work set
ErroredTaskResolved ==
    \A t \in Tasks :
        (Finished(t) /\ ErrorThenTerminal(ck_log[t])) =>
            task_id(t) \notin SeqSet(ResumedWork)

\* C7 as the code has it: the terminal event of an errored task is
\* task_incomplete, its lines hold no task_done, and the resumed run puts
\* the task in its work set again
ErroredTaskRetried ==
    \A t \in Tasks :
        (Finished(t) /\ ErrorThenTerminal(ck_log[t])) =>
            /\ CountType(ck_log[t], {"task_incomplete"}) = 1
            /\ CountType(ck_log[t], {"task_done"}) = 0
            /\ task_id(t) \in SeqSet(ResumedWork)

\* an errored task (after a fallback) next to a task another worker completed
ErroredTaskWitness ==
    /\ Finished(1) /\ ErrorThenTerminal(ck_log[1])
    /\ CountType(ck_log[1], {"task_fallback"}) >= 1
    /\ Finished(2) /\ CountType(ck_log[2], {"task_done"}) = 1
    /\ ResumedWork = <<task_id(1)>>

(***************************************************************************)
(* C9.  The log of a run never holds more than one quota_exhausted event,  *)
(* and it holds one as soon as the flag is set and no worker is between    *)
(* setting the flag and writing the event (the checkpoint writer being     *)
(* open).                                                                  *)
(***************************************************************************)
ExactlyOneQuotaEvent ==
    /\ CountType(RunLog, {"quota_exhausted"}) <= 1
    /\ (quota_stop /\ ck_open /\ \A w \in Workers : wpc[w] # "quota_ck") =>
           CountType(RunLog, {"quota_exhausted"}) = 1

(***************************************************************************)
(* C10.  With one worker: when a call of the k-th task of the queue was    *)
(* answered with the quota signal, the log holds at most k task_done and   *)
(* task_error events and no task queued after the k-th has got a           *)
(* checkpoint event.                                                       *)
(***************************************************************************)
NoTaskAfterQuotaTask ==
    concurrency = 1 =>
        \A k \in Tasks :
            quota_met[k] # "none" =>
                /\ CountType(RunLog, {"task_done", "task_error"}) <= k
                /\ \A t \in Tasks : t > k => ck_log[t] = <<>>

(***************************************************************************)
(* SpecFinal: the end of Harvester.run (harvest.py, lines 573-615) with    *)
(* the snapshot thread and the Row Store: the poll loop, the bounded       *)
(* joins, close(), the final write and the returned dictionary.  A worker  *)
(* is either inside an API call ("call", which can last), between calls    *)
(* upserting the items of a page ("item"), or has returned ("exit").       *)
(* write_full_csv writes a temporary file of its own and then replaces the *)
(* file at out_path with it (export_full.py, atomic_write_csv).            *)
(***************************************************************************)
storeRest == <<rows_lock, spc, sbook, srow, smerged, upsert_calls>>
runRest   == <<concurrency, queue, wtask, wpage, wattempt, wfallback, wseen, werr,
               wcomplete, ck_log, quota_met>>
finalOthers == <<storeRest, runRest, mergeVars, resumeVars, bucketVars, getVars, fbVars, lockVars,
                srcVars,
                statVars,
                verifyVars>>

\* th.join(timeout=...) without the timeout
join_without_timeout(ended, outlasted) == ended

\* th.join(timeout=1.0) returns when the thread has ended or has outlasted
\* the timeout
join_timeout(ended, outlasted) == ended \/ outlasted

\* the identifier of the items worker w meets
FinalKey(w) == IF w = 1 THEN V1 ELSE V2

InitFinal ==
    /\ rows = EmptyStore
    /\ sseen = [w \in Workers |-> 0]
    /\ wpc = [w \in Workers |-> "call"]
    /\ quota_stop = FALSE
    /\ stop_cond = FALSE
    /\ ck_open = TRUE
    /\ cpc = "poll"
    /\ snap_pc \in {"off", "head"}
    /\ snap_rows = EmptyStore
    /\ last_n = 0
    /\ stop_snap = FALSE
    /\ out_file \in {[exists |-> FALSE, rows |-> EmptyStore]}
    /\ fin_rows = EmptyStore
    /\ final_writes = 0
    /\ ret_rows = EmptyStore
    /\ rows_lock = NoOwner
    /\ spc = [w \in Workers |-> "idle"]
    /\ sbook = [w \in Workers |-> NoBook]
    /\ srow = [w \in Workers |-> NoRow]
    /\ smerged = [w \in Workers |-> NoRow]
    /\ upsert_calls = EmptyStore
    /\ concurrency = Cardinality(Workers)
    /\ queue = <<>>
    /\ wtask = [w \in Workers |-> 0]
    /\ wpage = [w \in Workers |-> 0]
    /\ wattempt = [w \in Workers |-> 0]
    /\ wfallback = [w \in Workers |-> FALSE]
    /\ wseen = [w \in Workers |-> 0]
    /\ werr = [w \in Workers |-> 0]
    /\ wcomplete = [w \in Workers |-> FALSE]
    /\ ck_log = <<>>
    /\ quota_met = <<>>

\* worker(): isbndb_get returns a page of books
FWCall(w) ==
    /\ wpc[w] = "call"
    /\ wpc' = [wpc EXCEPT ![w] = "item"]
    /\ UNCHANGED <<rows, sseen, quota_stop, stop_cond, ck_open, cpc>>
    /\ UNCHANGED <<finalOthers, finalVars>>

\* worker(): self.store.upsert(isbn13, row, merge_fn) of an item of the page
FWUpsert(w) ==
    /\ wpc[w] = "item"
    /\ sseen[w] < MaxItems
    /\ LET k   == FinalKey(w)
           row == NewRow(k, Book(k, "Book", "", MinScore), TaskQuery(w), FALSE)
       IN  rows' = Put(rows, k, UpsertValue(rows, k, row, FALSE))
    /\ sseen' = [sseen EXCEPT ![w] = @ + 1]
    /\ UNCHANGED <<wpc, quota_stop, stop_cond, ck_open, cpc>>
    /\ UNCHANGED <<finalOthers, finalVars>>

\* worker(): after the items of a page, the next should_stop check: the
\* worker starts another call, or returns (stop condition, or queue empty)
FWNext(w) ==
    /\ wpc[w] = "item"
    /\ \E next \in {"call", "exit"} :
         /\ should_stop(quota_stop, stop_cond) => next = "exit"
         /\ wpc' = [wpc EXCEPT ![w] = next]
    /\ UNCHANGED <<rows, sseen, quota_stop, stop_cond, ck_open, cpc>>
    /\ UNCHANGED <<finalOthers, finalVars>>

\* the environment: the stop file appears or max_seconds elapses (the quota
\* flag acts on should_stop in the same way)
FStopSignal ==
    /\ ~stop_cond
    /\ stop_cond' = TRUE
    /\ UNCHANGED <<rows, sseen, wpc, quota_stop, ck_open, cpc>>
    /\ UNCHANGED <<finalOthers, finalVars>>

\* snapshot_writer: "while not stop_evt.is_set()"
SnapHead ==
    /\ snap_pc = "head"
    /\ snap_pc' = IF stop_snap THEN "exit" ELSE "sleep"
    /\ UNCHANGED <<snap_rows, last_n, stop_snap, out_file, fin_rows, final_writes, ret_rows>>
    /\ UNCHANGED <<rows, sseen, wpc, quota_stop, stop_cond, ck_open, cpc, finalOthers>>

\* snapshot_writer: time.sleep(...) ends; "if stop_evt.is_set() or
\* self.should_stop(): return"
SnapWake ==
    /\ snap_pc = "sleep"
    /\ snap_pc' = IF stop_snap \/ should_stop(quota_stop, stop_cond) THEN "exit" ELSE "snapshot"
    /\ UNCHANGED <<snap_rows, last_n, stop_snap, out_file, fin_rows, final_writes, ret_rows>>
    /\ UNCHANGED <<rows, sseen, wpc, quota_stop, stop_cond, ck_open, cpc, finalOthers>>

\* snapshot_writer: rows = self.store.snapshot_values(); unchanged length: continue
SnapTake ==
    /\ snap_pc = "snapshot"
    /\ snap_rows' = rows
    /\ IF Cardinality(DOMAIN rows) = last_n
       THEN snap_pc' = "head" /\ UNCHANGED last_n
       ELSE snap_pc' = "write" /\ last_n' = Cardinality(DOMAIN rows)
    /\ UNCHANGED <<stop_snap, out_file, fin_rows, final_writes, ret_rows>>
    /\ UNCHANGED <<rows, sseen, wpc, quota_stop, stop_cond, ck_open, cpc, finalOthers>>

\* snapshot_writer: write_full_csv writes its temporary file (an exception
\* is swallowed: "Snapshot is best-effort")
SnapWrite ==
    /\ snap_pc = "write"
    /\ \E ok \in BOOLEAN : snap_pc' = IF ok THEN "replace" ELSE "head"
    /\ UNCHANGED <<snap_rows, last_n, stop_snap, out_file, fin_rows, final_writes, ret_rows>>
    /\ UNCHANGED <<rows, sseen, wpc, quota_stop, stop_cond, ck_open, cpc, finalOthers>>

\* snapshot_writer: os.replace(tmp_path, out_path)
SnapReplace ==
    /\ snap_pc = "replace"
    /\ out_file' = [exists |-> TRUE, rows |-> snap_rows]
    /\ snap_pc' = "head"
    /\ UNCHANGED <<snap_rows, last_n, stop_snap, fin_rows, final_writes, ret_rows>>
    /\ UNCHANGED <<rows, sseen, wpc, quota_stop, stop_cond, ck_open, cpc, finalOthers>>

\* run(): "while any(t.is_alive() ...)" and "if self.should_stop(): break"
FPoll ==
    /\ cpc = "poll"
    /\ cpc' = IF (\A w \in Workers : wpc[w] = "exit") \/ should_stop(quota_stop, stop_cond)
              THEN "join" ELSE "sleep"
    /\ UNCHANGED <<rows, sseen, wpc, quota_stop, stop_cond, ck_open>>
    /\ UNCHANGED <<finalOthers, finalVars>>

\* run(): time.sleep(0.1)
FSleep ==
    /\ cpc = "sleep"
    /\ cpc' = "poll"
    /\ UNCHANGED <<rows, sseen, wpc, quota_stop, stop_cond, ck_open>>
    /\ UNCHANGED <<finalOthers, finalVars>>

\* run(): "for th in threads: th.join(timeout=1.0)"; a worker outlasts the
\* timeout inside an API call
FJoin ==
    /\ cpc = "join"
    /\ \A w \in Workers : join_timeout(wpc[w] = "exit", wpc[w] = "call")
    /\ cpc' = "stop_snap"
    /\ UNCHANGED <<rows, sseen, wpc, quota_stop, stop_cond, ck_open>>
    /\ UNCHANGED <<finalOthers, finalVars>>

\* run(): "finally: stop_snap.set()"
FStopSnap ==
    /\ cpc = "stop_snap"
    /\ stop_snap' = TRUE
    /\ cpc' = IF snap_pc = "off" THEN "close" ELSE "snap_join"
    /\ UNCHANGED <<rows, sseen, wpc, quota_stop, stop_cond, ck_open>>
    /\ UNCHANGED <<snap_pc, snap_rows, last_n, out_file, fin_rows, final_writes, ret_rows>>
    /\ UNCHANGED finalOthers

\* run(): snap_thread.join(timeout=1.0); the snapshotter outlasts the
\* timeout in its sleep or while write_full_csv writes the rows
FSnapJoin ==
    /\ cpc = "snap_join"
    /\ join_timeout(snap_pc = "exit", snap_pc \in {"sleep", "write"})
    /\ cpc' = "close"
    /\ UNCHANGED <<rows, sseen, wpc, quota_stop, stop_cond, ck_open>>
    /\ UNCHANGED <<finalOthers, finalVars>>

\* run(): self.close()
FClose ==
    /\ cpc = "close"
    /\ ck_open' = FALSE
    /\ cpc' = "snapshot"
    /\ UNCHANGED <<rows, sseen, wpc, quota_stop, stop_cond>>
    /\ UNCHANGED <<finalOthers, finalVars>>

\* run(): rows = self.store.snapshot_values()
FSnapshot ==
    /\ cpc = "snapshot"
    /\ fin_rows' = rows
    /\ cpc' = "final_write"
    /\ UNCHANGED <<rows, sseen, wpc, quota_stop, stop_cond, ck_open>>
    /\ UNCHANGED <<snap_pc, snap_rows, last_n, stop_snap, out_file, final_writes, ret_rows>>
    /\ UNCHANGED finalOthers

\* run(): write_full_csv(rows, self.out_path) writes its temporary file
FFinalWrite ==
    /\ cpc = "final_write"
    /\ cpc' = "final_replace"
    /\ UNCHANGED <<rows, sseen, wpc, quota_stop, stop_cond, ck_open>>
    /\ UNCHANGED <<finalOthers, finalVars>>

\* run(): write_full_csv: os.replace(tmp_path, out_path)
FFinalReplace ==
    /\ cpc = "final_replace"
    /\ out_file' = [exists |-> TRUE, rows |-> fin_rows]
    /\ final_writes' = final_writes + 1
    /\ cpc' = "return"
    /\ UNCHANGED <<rows, sseen, wpc, quota_stop, stop_cond, ck_open>>
    /\ UNCHANGED <<snap_pc, snap_rows, last_n, stop_snap, fin_rows, ret_rows>>
    /\ UNCHANGED finalOthers

\* run(): return self.store.snapshot_dict()
FReturn ==
    /\ cpc = "return"
    /\ ret_rows' = rows
    /\ cpc' = "done"
    /\ UNCHANGED <<rows, sseen, wpc, quota_stop, stop_cond, ck_open>>
    /\ UNCHANGED <<snap_pc, snap_rows, last_n, stop_snap, out_file, fin_rows, final_writes>>
    /\ UNCHANGED finalOthers

FinalInit ==
    /\ InitFinal /\ IdleMerge /\ IdleResume /\ IdleBucket /\ IdleGet /\ IdleFb /\ IdleLocks
    /\ IdleSources /\ IdleStats /\ IdleVerify

FinalWorker(w) == FWCall(w) \/ FWUpsert(w) \/ FWNext(w)

FinalSnapshotter == SnapHead \/ SnapWake \/ SnapTake \/ SnapWrite \/ SnapReplace

FinalCoordinator ==
    \/ FPoll \/ FSleep \/ FJoin \/ FStopSnap \/ FSnapJoin \/ FClose
    \/ FSnapshot \/ FFinalWrite \/ FFinalReplace \/ FReturn

FinalNext ==
    \/ \E w \in Workers : FinalWorker(w)
    \/ FinalSnapshotter
    \/ FinalCoordinator
    \/ FStopSignal

SpecFinal == FinalInit /\ [][FinalNext]_vars

\* the coordinator's steps all end (the joins are bounded, sleep(0.1) ends),
\* and so do the steps of a worker and of the snapshotter that do not wait
\* for the network, the disk or a timer
SpecFinalFair ==
    /\ SpecFinal
    /\ WF_vars(FinalCoordinator)
    /\ \A w \in Workers : WF_vars(FWNext(w))
    /\ WF_vars(SnapHead \/ SnapTake \/ SnapReplace)

(***************************************************************************)
(* C11.  Every execution of run() that leaves the poll loop, with all      *)
(* workers ended or with workers still inside an API call, eventually      *)
(* replaces the file at out_path with the final snapshot, once; the write  *)
(* happens also when the store holds no row.                               *)
(***************************************************************************)
LeavesLoopThenFinalWrite ==
    /\ [](final_writes <= 1)
    /\ [](cpc = "done" => final_writes = 1 /\ out_file.exists)
    /\ (cpc = "join") ~> (cpc = "done")

\* run() returned with a worker still inside a call and an empty store: the
\* file exists and holds no row
FinalWriteWitness ==
    /\ cpc = "done" /\ final_writes = 1
    /\ \E w \in Workers : wpc[w] = "call"
    /\ rows = EmptyStore
    /\ out_file = [exists |-> TRUE, rows |-> EmptyStore]

(***************************************************************************)
(* SpecBucket: TokenBucket (http_client.py) with concurrent callers of     *)
(* take(1.0).  Time is counted in ticks and tokens in units of 1/TBScale   *)
(* token, so that the bucket holds fractions of a token between refills.   *)
(***************************************************************************)
TBScale == 2         \* token units per token
MaxBurst == 2        \* burst
MaxRate == 2         \* rate_per_sec, in token units per tick
MaxClock == 3        \* ticks of the clock
MaxTakes == 4        \* take calls that return

bucketOthers == <<storeVars, mergeVars, runVars, resumeVars, finalVars, getVars, fbVars, lockVars,
                srcVars,
                statVars,
                verifyVars>>

\* the refill without the cap
refill_uncapped(tokens, elapsed, rate, capacity) == tokens + elapsed * rate

\* take(): min(self.capacity, self.tokens + elapsed * self.rate), in token units
refill(tokens, elapsed, rate, capacity) == Min(capacity * TBScale, tokens + elapsed * rate)

\* TokenBucket.__init__
InitBucket ==
    /\ \E burst \in 1..MaxBurst : tb_capacity = Max(1, burst)
    /\ tb_rate \in 1..MaxRate
    /\ tb_tokens = tb_capacity * TBScale
    /\ tb_last = 0
    /\ tb_lock = NoOwner
    /\ tb_clock = 0
    /\ tb_pc = [c \in Workers |-> "idle"]
    /\ tb_grants = <<>>

\* time passes
TBTick ==
    /\ tb_clock < MaxClock
    /\ tb_clock' = tb_clock + 1
    /\ UNCHANGED <<tb_rate, tb_capacity, tb_tokens, tb_last, tb_lock, tb_pc, tb_grants>>
    /\ UNCHANGED bucketOthers

\* a caller calls take(1.0)
TBCall(c) ==
    /\ tb_pc[c] = "idle"
    /\ Len(tb_grants) < MaxTakes
    /\ tb_pc' = [tb_pc EXCEPT ![c] = "acquire"]
    /\ UNCHANGED <<tb_rate, tb_capacity, tb_tokens, tb_last, tb_lock, tb_clock, tb_grants>>
    /\ UNCHANGED bucketOthers

\* take(): "with self.lock"
TBAcquire(c) ==
    /\ tb_pc[c] = "acquire"
    /\ tb_lock = NoOwner
    /\ tb_lock' = c
    /\ tb_pc' = [tb_pc EXCEPT ![c] = "body"]
    /\ UNCHANGED <<tb_rate, tb_capacity, tb_tokens, tb_last, tb_clock, tb_grants>>
    /\ UNCHANGED bucketOthers

\* take(): the body under the lock; returns with a token or leaves the lock
\* to sleep
TBBody(c) ==
    /\ tb_pc[c] = "body"
    /\ LET now     == tb_clock
           elapsed == now - tb_last
           tokens  == refill(tb_tokens, elapsed, tb_rate, tb_capacity)
       IN  /\ tb_last' = now
           /\ IF tokens >= TBScale
              THEN /\ tb_tokens' = tokens - TBScale
                   /\ tb_grants' = Append(tb_grants, now)
                   /\ tb_pc' = [tb_pc EXCEPT ![c] = "idle"]
              ELSE /\ tb_tokens' = tokens
                   /\ tb_pc' = [tb_pc EXCEPT ![c] = "sleep"]
                   /\ UNCHANGED tb_grants
    /\ tb_lock' = NoOwner
    /\ UNCHANGED <<tb_rate, tb_capacity, tb_clock>>
    /\ UNCHANGED bucketOthers

\* take(): time.sleep(min(0.25, max(0.01, need))) ends
TBWake(c) ==
    /\ tb_pc[c] = "sleep"
    /\ tb_pc' = [tb_pc EXCEPT ![c] = "acquire"]
    /\ UNCHANGED <<tb_rate, tb_capacity, tb_tokens, tb_last, tb_lock, tb_clock, tb_grants>>
    /\ UNCHANGED bucketOthers

BucketInit == InitBucket /\ InitStore /\ IdleMerge /\ IdleRun /\ IdleResume /\ IdleFinal /\ IdleGet
              /\ IdleFb /\ IdleLocks /\ IdleSources /\ IdleStats /\ IdleVerify

BucketNext ==
    \/ TBTick
    \/ \E c \in Workers : TBCall(c) \/ TBAcquire(c) \/ TBBody(c) \/ TBWake(c)

SpecBucket == BucketInit /\ [][BucketNext]_vars

AllTasksTerminal ==
    \A t \in Tasks : Finished(t) /\ CountType(ck_log[t], TerminalTypes) = 1

TaskErrorDoesNotStopRun ==
    /\ [](\A w \in Workers : wpc[w] = "exit" => (quota_stop \/ queue = <<>>))
    /\ [][\A w \in Workers :
            (wpc[w] = "finally" /\ wpc'[w] # "finally") => wpc'[w] = "loop"]_vars
    /\ <>(quota_stop \/ AllTasksTerminal)

\* a task ended with an error and the same worker has completed a later task
TaskErrorWitness ==
    /\ concurrency = 1
    /\ ~quota_stop /\ ~stop_cond
    /\ CountType(ck_log[1], {"task_error"}) = 1
    /\ AllTasksTerminal
    /\ CountType(ck_log[NumTasks], {"task_done"}) = 1

(***************************************************************************)
(* One call of isbndb_get (SpecGet): the attempts of the for loop, what    *)
(* each of them meets, and the sleeps between them.  Time is in seconds;   *)
(* _sleep_jitter adds a random jitter below half a second to the base it   *)
(* is given, g_sleep records the base.                                     *)
(***************************************************************************)
MaxRetries == 6      \* retries of the call
MaxRetryAfter == 1   \* the numeric values of a Retry-After header, in seconds
BackoffCap == 30

getOthers == <<storeVars, mergeVars, runVars, resumeVars, finalVars, bucketVars, fbVars, lockVars,
                srcVars,
                statVars,
                verifyVars>>

RetryableStatuses == {429, 500, 502, 503, 504}

Statuses == {200, 400, 401, 403, 404} \cup RetryableStatuses

\* the body of a response: a JSON object with the daily-quota message, another
\* JSON object, something that is not JSON, nothing
Bodies == {"quota", "dict", "malformed", "empty"}

\* what session.get can meet: a network error or timeout (RequestException),
\* or a response with a status, a body and a Retry-After header (ra, -1: none
\* or not numeric)
GetResponses ==
    {[net |-> "error", status |-> 0, body |-> "empty", ra |-> -1]}
    \cup {[net |-> "ok", status |-> st, body |-> b, ra |-> ra] :
            st \in Statuses, b \in Bodies, ra \in -1..MaxRetryAfter}

\* "except (requests.RequestException, ValueError)"
handler(attempt, retries) == IF attempt <= retries THEN "retry" ELSE "failed"

\* the retryable statuses looked at before the quota message
outcome_retry_first(r, attempt, retries) ==
    IF r.net = "error" THEN handler(attempt, retries)
    ELSE IF r.status \in RetryableStatuses /\ attempt <= retries THEN "retry"
    ELSE IF r.body = "quota" THEN "quota"
    ELSE IF r.status \in {401, 403} THEN "auth"
    ELSE IF r.status >= 400 THEN handler(attempt, retries)
    ELSE IF r.body = "malformed" THEN handler(attempt, retries)
    ELSE "return"

\* one iteration of the for loop on response r: the quota message, the
\* retryable statuses, 401 and 403, raise_for_status (an HTTPError is a
\* RequestException), the JSON body
outcome(r, attempt, retries) ==
    IF r.net = "error" THEN handler(attempt, retries)
    ELSE IF r.body = "quota" THEN "quota"
    ELSE IF r.status \in RetryableStatuses /\ attempt <= retries THEN "retry"
    ELSE IF r.status \in {401, 403} THEN "auth"
    ELSE IF r.status >= 400 THEN handler(attempt, retries)
    ELSE IF r.body = "malformed" THEN handler(attempt, retries)
    ELSE "return"

\* the base given to _sleep_jitter before a retry: the Retry-After value of a
\* 429/5xx response when it is numeric, else backoff
sleep_base(r, backoff) ==
    IF r.net = "ok" /\ r.status \in RetryableStatuses /\ r.ra >= 0
    THEN [base |-> r.ra, from |-> "retry_after"]
    ELSE [base |-> backoff, from |-> "backoff"]

\* the doubling without the cap
next_backoff_uncapped(backoff) == backoff * 2

\* backoff = min(30.0, backoff * 2)
next_backoff(backoff) == Min(BackoffCap, backoff * 2)

InitGet ==
    /\ g_retries \in 0..MaxRetries
    /\ g_pc = "send"
    /\ g_attempt = 1
    /\ g_backoff = 1
    /\ g_sent = 0
    /\ g_last = NoResponse
    /\ g_sleep = NoSleep
    /\ g_result = "none"
    /\ g_transient = TRUE

\* the failures the retry policy is for: 429/500/502/503/504, a network
\* error or timeout, a 200 whose body is not JSON
IsTransient(r) ==
    \/ r.net = "error"
    \/ /\ r.body # "quota"
       /\ \/ r.status \in RetryableStatuses
          \/ r.status = 200 /\ r.body = "malformed"

\* one iteration of "for attempt in range(1, retries + 2)" up to the sleep,
\* the return or the raise
GAttempt ==
    /\ g_pc = "send"
    /\ g_attempt <= g_retries + 1
    /\ \E r \in GetResponses :
         LET o == outcome(r, g_attempt, g_retries) IN
         /\ g_sent' = g_sent + 1
         /\ g_last' = r
         /\ g_transient' = (g_transient /\ IsTransient(r))
         /\ g_pc' = CASE o = "retry" -> "sleep"
                      [] o = "return" -> "returned"
                      [] OTHER -> "raised"
         /\ g_result' = CASE o = "retry" -> g_result
                          [] o = "return" -> "ok"
                          [] OTHER -> o
    /\ UNCHANGED <<g_retries, g_attempt, g_backoff, g_sleep>>
    /\ UNCHANGED getOthers

\* _sleep_jitter(...); backoff = min(30.0, backoff * 2); continue
GBackoff ==
    /\ g_pc = "sleep"
    /\ g_sleep' = sleep_base(g_last, g_backoff)
    /\ g_backoff' = next_backoff(g_backoff)
    /\ g_attempt' = g_attempt + 1
    /\ g_pc' = "send"
    /\ UNCHANGED <<g_retries, g_sent, g_last, g_result, g_transient>>
    /\ UNCHANGED getOthers

GetInit ==
    /\ InitGet /\ InitStore /\ IdleMerge /\ IdleRun /\ IdleResume /\ IdleFinal
    /\ IdleBucket /\ IdleFb /\ IdleLocks /\ IdleSources /\ IdleStats /\ IdleVerify

GetNext == GAttempt \/ GBackoff

SpecGet == GetInit /\ [][GetNext]_vars

RECURSIVE Pow2(_)
Pow2(n) == IF n <= 0 THEN 1 ELSE 2 * Pow2(n - 1)

GetEnded == g_pc \in {"returned", "raised"}

\* when every attempt failed transiently the call ends after retries + 1
\* attempts with the "Request failed" ISBNdbError
TransientExhausts ==
    (g_transient /\ GetEnded) =>
        (g_pc = "raised" /\ g_result = "failed" /\ g_sent = g_retries + 1)

(***************************************************************************)
(* C14 as stated.  When every attempt of a call fails transiently, exactly *)
(* retries + 1 HTTP attempts are made and then ISBNdbError is raised, and  *)
(* the sleep before the k-th retry is based on min(30, 2^(k-1)) seconds.   *)
(***************************************************************************)
TransientRetriesBackoff ==
    /\ TransientExhausts
    /\ (g_transient /\ g_pc = "send" /\ g_attempt > 1) =>
           g_sleep.base = Min(BackoffCap, Pow2(g_attempt - 2))

(***************************************************************************)
(* C14, amended.  When every attempt of a call fails transiently, exactly  *)
(* retries + 1 HTTP attempts are made and then ISBNdbError is raised; the  *)
(* sleep before the k-th retry is based on the Retry-After value when the  *)
(* failed attempt was a 429/5xx response with a numeric Retry-After        *)
(* header, and on min(30, 2^(k-1)) seconds otherwise.                      *)
(***************************************************************************)
TransientRetriesBackoffOrRetryAfter ==
    /\ TransientExhausts
    /\ (g_transient /\ g_pc = "send" /\ g_attempt > 1) =>
           IF g_last.net = "ok" /\ g_last.status \in RetryableStatuses /\ g_last.ra >= 0
           THEN g_sleep = [base |-> g_last.ra, from |-> "retry_after"]
           ELSE g_sleep = [base |-> Min(BackoffCap, Pow2(g_attempt - 2)), from |-> "backoff"]

\* all attempts failed transiently, and the last sleep was the capped one
TransientRetriesWitness ==
    /\ g_transient /\ g_pc = "raised" /\ g_result = "failed"
    /\ g_retries = MaxRetries /\ g_sent = MaxRetries + 1
    /\ g_sleep = [base |-> BackoffCap, from |-> "backoff"]

(***************************************************************************)
(* C15.  A response that carries the daily-quota message, whatever its     *)
(* status, and a response with status 401 or 403 end the call at once:     *)
(* ISBNdbQuotaError for the quota message, ISBNdbError for 401 and 403,    *)
(* and no HTTP attempt is made after the call has raised.                  *)
(***************************************************************************)
IsQuota(r) == r.net = "ok" /\ r.body = "quota"

IsAuth(r) == r.net = "ok" /\ r.status \in {401, 403} /\ r.body # "quota"

FatalResponsesNotRetried ==
    /\ [](IsQuota(g_last) => (g_pc = "raised" /\ g_result = "quota"))
    /\ [](IsAuth(g_last) => (g_pc = "raised" /\ g_result = "auth"))
    /\ [][g_pc = "raised" => (g_sent' = g_sent /\ g_pc' = "raised")]_vars

\* a 429 with the quota message met while retries were left
FatalResponsesWitness ==
    /\ g_pc = "raised" /\ g_result = "quota"
    /\ g_last.status = 429 /\ g_last.ra >= 0
    /\ g_sent = 2 /\ g_retries = MaxRetries

(***************************************************************************)
(* C16.  A response with another non-2xx status (400, 404) is not          *)
(* retried: the call raises after it without a further HTTP attempt.       *)
(***************************************************************************)
IsOtherStatus(r) == r.net = "ok" /\ r.status \in {400, 404} /\ r.body # "quota"

OtherStatusNotRetried == IsOtherStatus(g_last) => g_pc = "raised"

(***************************************************************************)
(* One page request of a task (SpecFallback): the primary isbndb_get call, *)
(* the "except ISBNdbError" handler and the fallback call.                 *)
(***************************************************************************)
MaxPage == 3         \* pages of a task

fbOthers == <<storeVars, mergeVars, runVars, resumeVars, finalVars, bucketVars, getVars, lockVars,
                srcVars,
                statVars,
                verifyVars>>

Endpoints == {"publisher", "subject", "search"}

Queries == {"Q1", "Q2"}

\* the ISBNdbError instances isbndb_get raises: "401 Unauthorized ...",
\* "403 Forbidden ..." (with the server's message when there is one) and
\* "Request failed: <url> params=<params> error=<e>"; text401 says that "401"
\* occurs in the text the message takes from the request or the response
Errors ==
    {[kind |-> k, text401 |-> b] : k \in {"auth401", "auth403", "failed"}, b \in BOOLEAN}

\* "401" in str(e)
msg_has_401(e) == e.kind = "auth401" \/ e.text401

\* if t.endpoint in ("publisher", "subject") and "401" not in msg
falls_back(endpoint, e) == endpoint \in {"publisher", "subject"} /\ ~msg_has_401(e)

FbCall(endpoint) == [endpoint |-> endpoint, query |-> fb_task.query, page |-> fb_page]

InitFb ==
    /\ fb_task \in [endpoint : Endpoints, query : Queries]
    /\ fb_page \in 1..MaxPage
    /\ fb_pc = "primary"
    /\ fb_error = NoError
    /\ fb_log = <<>>
    /\ fb_calls = <<>>

\* build_task_request(t.endpoint, ...) and the primary isbndb_get: it
\* returns, raises ISBNdbQuotaError or raises another ISBNdbError
FbPrimary ==
    /\ fb_pc = "primary"
    /\ fb_calls' = Append(fb_calls, FbCall(fb_task.endpoint))
    /\ \/ fb_pc' = "returned" /\ UNCHANGED fb_error
       \/ fb_pc' = "quota" /\ UNCHANGED fb_error
       \/ \E e \in Errors : fb_pc' = "handler" /\ fb_error' = e
    /\ UNCHANGED <<fb_task, fb_page, fb_log>>
    /\ UNCHANGED fbOthers

\* "except ISBNdbError as e": the task_fallback event and the request for the
\* search endpoint, or raise
FbHandler ==
    /\ fb_pc = "handler"
    /\ IF falls_back(fb_task.endpoint, fb_error)
       THEN /\ fb_log' = Append(fb_log, "task_fallback")
            /\ fb_pc' = "fallback"
       ELSE /\ fb_pc' = "raised"
            /\ UNCHANGED fb_log
    /\ UNCHANGED <<fb_task, fb_page, fb_error, fb_calls>>
    /\ UNCHANGED fbOthers

\* the isbndb_get call inside the handler: it returns or raises
FbSecond ==
    /\ fb_pc = "fallback"
    /\ fb_calls' = Append(fb_calls, FbCall("search"))
    /\ fb_pc' \in {"returned", "raised"}
    /\ UNCHANGED <<fb_task, fb_page, fb_error, fb_log>>
    /\ UNCHANGED fbOthers

FbInit ==
    /\ InitFb /\ InitStore /\ IdleMerge /\ IdleRun /\ IdleResume /\ IdleFinal
    /\ IdleBucket /\ IdleGet /\ IdleLocks /\ IdleSources /\ IdleStats /\ IdleVerify

FbNext == FbPrimary \/ FbHandler \/ FbSecond

SpecFallback == FbInit /\ [][FbNext]_vars

(***************************************************************************)
(* C17.  After a failed primary call the worker falls back to the search   *)
(* endpoint (task_fallback event, then a call with the same query and      *)
(* page) exactly when the task's endpoint is publisher or subject and the  *)
(* error is neither an auth failure (401, 403) nor the quota error.        *)
(***************************************************************************)
FellBack == fb_log = <<"task_fallback">>

FallbackExactlyOnNonAuthError ==
    /\ fb_pc \in {"quota", "returned"} /\ Len(fb_calls) = 1 => ~FellBack
    /\ fb_pc \in {"fallback", "raised", "returned"} /\ fb_error # NoError =>
         (FellBack <=> (/\ fb_task.endpoint \in {"publisher", "subject"}
                        /\ fb_error.kind \notin {"auth401", "auth403"}))
    /\ Len(fb_calls) = 2 =>
         (FellBack /\ fb_calls[2] = [fb_calls[1] EXCEPT !.endpoint = "search"])

(***************************************************************************)
(* The locks of a run (SpecLocks): TokenBucket.lock, RowStore._lock,       *)
(* CheckpointWriter._lock and StatsTracker._lock, and the calls the        *)
(* threads of run() make on the four objects.  A thread makes the calls of *)
(* its code in any order; every call is one "with lock:" section.          *)
(***************************************************************************)
lockOthers == <<storeVars, mergeVars, runVars, resumeVars, finalVars, bucketVars, getVars,
                fbVars, srcVars,
                statVars,
                verifyVars>>

WorkerMethods ==
    {"take", "write", "inc_requests", "inc_books_seen", "upsert", "inc_kept", "size",
     "set_unique13", "inc_errors", "inc_tasks_done"}

SnapshotterMethods == {"snapshot_values"}

CoordinatorMethods ==
    {"set_tasks_total", "size", "snapshot", "snapshot_rates", "snapshot_values",
     "snapshot_dict"}

\* the calls a thread of run() makes on the limiter, the store, the
\* checkpoint writer and the statistics
MethodsOf(th) ==
    CASE th = "snapshotter" -> SnapshotterMethods
      [] th = "coordinator" -> CoordinatorMethods
      [] OTHER -> WorkerMethods

\* the lock of the "with" statement of a method
LockOf(m) ==
    CASE m = "take" -> "limiter"
      [] m = "write" -> "checkpoint"
      [] m \in {"upsert", "size", "snapshot_values", "snapshot_dict"} -> "store"
      [] OTHER -> "stats"

\* an upsert that counts the kept row in the statistics inside its section
inside_upsert_counts(m) == IF m = "upsert" THEN {"stats"} ELSE {}

\* the locks taken by the statements inside the "with" section of a method:
\* arithmetic in take, a file write in write, dictionary operations and the
\* pure merge_fn in the store, counter updates in the statistics
inside(m) == {}

InitLocks ==
    /\ lk_owner = [l \in Locks |-> "free"]
    /\ lk_pc = [th \in LockThreads |-> "out"]
    /\ lk_method = [th \in LockThreads |-> "none"]

\* the thread calls a method
LkCall(th, m) ==
    /\ lk_pc[th] = "out"
    /\ m \in MethodsOf(th)
    /\ lk_pc' = [lk_pc EXCEPT ![th] = "wait"]
    /\ lk_method' = [lk_method EXCEPT ![th] = m]
    /\ UNCHANGED lk_owner
    /\ UNCHANGED lockOthers

\* "with self._lock:" is entered when the lock is free
LkAcquire(th) ==
    /\ lk_pc[th] = "wait"
    /\ lk_owner[LockOf(lk_method[th])] = "free"
    /\ lk_owner' = [lk_owner EXCEPT ![LockOf(lk_method[th])] = th]
    /\ lk_pc' = [lk_pc EXCEPT ![th] = "in"]
    /\ UNCHANGED lk_method
    /\ UNCHANGED lockOthers

\* the statements of the section
LkBody(th) ==
    /\ lk_pc[th] = "in"
    /\ \A l \in inside(lk_method[th]) : lk_owner[l] = "free"
    /\ lk_owner' = [l \in Locks |-> IF l \in inside(lk_method[th]) THEN th ELSE lk_owner[l]]
    /\ lk_pc' = [lk_pc EXCEPT ![th] = "leave"]
    /\ UNCHANGED lk_method
    /\ UNCHANGED lockOthers

\* the end of the "with" statement
LkRelease(th) ==
    /\ lk_pc[th] = "leave"
    /\ lk_owner' = [l \in Locks |-> IF lk_owner[l] = th THEN "free" ELSE lk_owner[l]]
    /\ lk_pc' = [lk_pc EXCEPT ![th] = "out"]
    /\ lk_method' = [lk_method EXCEPT ![th] = "none"]
    /\ UNCHANGED lockOthers

LocksInit ==
    /\ InitLocks /\ InitStore /\ IdleMerge /\ IdleRun /\ IdleResume /\ IdleFinal
    /\ IdleBucket /\ IdleGet /\ IdleFb /\ IdleSources /\ IdleStats /\ IdleVerify

LocksNext ==
    \E th \in LockThreads :
        \/ \E m \in WorkerMethods \cup SnapshotterMethods \cup CoordinatorMethods : LkCall(th, m)
        \/ LkAcquire(th) \/ LkBody(th) \/ LkRelease(th)

SpecLocks == LocksInit /\ [][LocksNext]_vars

HeldBy(th) == {l \in Locks : lk_owner[l] = th}

SnapshotterWriting == snap_pc \in {"write", "replace"}

FinalWriting == cpc \in {"final_write", "final_replace"}

SnapshotNeverAfterFinalWrite ==
    /\ ~(SnapshotterWriting /\ FinalWriting)
    /\ cpc = "done" => out_file = [exists |-> TRUE, rows |-> fin_rows]

(***************************************************************************)
(* The sources of one record (SpecSources): the first observation of an    *)
(* identifier stores a row whose sources is its task query, every later    *)
(* observation goes through merge_row and _merge_sources.  Provenance keys *)
(* are first observed in the order of KeyNames (the keys are               *)
(* interchangeable); repeated keys arrive in any order.                    *)
(***************************************************************************)
MaxExtraKeys == 2    \* distinct provenance keys beyond MaxSources

srcOthers == <<storeVars, mergeVars, runVars, resumeVars, finalVars, bucketVars, getVars,
               fbVars, lockVars,
                statVars,
                verifyVars>>

KeyNames ==
    <<"s01", "s02", "s03", "s04", "s05", "s06", "s07", "s08", "s09", "s10", "s11", "s12",
      "s13", "s14", "s15", "s16", "s17", "s18">>

NumKeys == Min(Len(KeyNames), MaxSources + MaxExtraKeys)

\* worker(): the row of the first observation, sources = t.query
InitSources ==
    /\ ms_sources = <<KeyNames[1]>>
    /\ ms_observed = <<KeyNames[1]>>
    /\ ms_last = KeyNames[1]

\* the task queries the next observation can carry: one seen before, the
\* next new one, or an empty one
NextQueries ==
    {""} \cup SeqSet(ms_observed)
    \cup (IF Len(ms_observed) < NumKeys THEN {KeyNames[Len(ms_observed) + 1]} ELSE {})

\* merge_row: sources = _merge_sources(existing.sources, new.task_query)
MsMerge ==
    /\ \E q \in NextQueries :
         /\ ms_sources' = _merge_sources(ms_sources, q, MaxSources)
         /\ ms_observed' = IF q = "" \/ q \in SeqSet(ms_observed)
                           THEN ms_observed ELSE Append(ms_observed, q)
         /\ ms_last' = q
    /\ UNCHANGED srcOthers

SourcesInit ==
    /\ InitSources /\ InitStore /\ IdleMerge /\ IdleRun /\ IdleResume /\ IdleFinal
    /\ IdleBucket /\ IdleGet /\ IdleFb /\ IdleLocks /\ IdleStats /\ IdleVerify

SourcesNext == MsMerge

SpecSources == SourcesInit /\ [][SourcesNext]_vars

\* the last n elements of a sequence
LastN(q, n) == SubSeq(q, Max(1, Len(q) - n + 1), Len(q))

(***************************************************************************)
(* C20.  After any sequence of merges the sources of the record have no    *)
(* duplicate and at most MaxSources entries, and once more than MaxSources *)
(* distinct keys were observed they are the MaxSources most recently       *)
(* inserted keys: the newest key is kept, the oldest are dropped.          *)
(***************************************************************************)
SourcesKeepMostRecent ==
    /\ \A i, j \in 1..Len(ms_sources) : ms_sources[i] = ms_sources[j] => i = j
    /\ Len(ms_sources) <= MaxSources
    /\ Len(ms_observed) > MaxSources =>
         SeqSet(ms_sources) = SeqSet(LastN(ms_observed, MaxSources))

(***************************************************************************)
(* Readings of SpecMerge for one upsert: the record stored before it, the  *)
(* observation it merges, and the side merge_row picks.                    *)
(***************************************************************************)
StickyFields == {"subtitle", "cover_url"}

MergeExisting == StoreAfter(mobs, mpc - 1, mpolicy)[V1]

MergeNew == mobs[mpc]

\* merge_row: pick is new
NewWins(existing, new) ==
    \/ new.jewish_score > existing.jewish_score
    \/ /\ new.jewish_score = existing.jewish_score
       /\ \/ _completeness(new) > _completeness(existing)
          \/ /\ _completeness(new) = _completeness(existing)
             /\ new.rank_score > existing.rank_score

(***************************************************************************)
(* C21.  For every sticky field of merge_row(existing, new): when the      *)
(* winner's value is empty, the merged value is the value of the other     *)
(* side, whichever of existing and new the winner is.                      *)
(***************************************************************************)
StickyFallsBackToOtherSide ==
    mpc >= 2 =>
        LET winner == IF NewWins(MergeExisting, MergeNew) THEN MergeNew ELSE MergeExisting
            other  == IF NewWins(MergeExisting, MergeNew) THEN MergeExisting ELSE MergeNew
        IN  \A f \in StickyFields : winner[f] = "" => mresult[V1][f] = other[f]

(***************************************************************************)
(* C25.  Sticky fields are never cleared: once the stored record has a     *)
(* non-empty value for a sticky field, it has a non-empty value for that   *)
(* field after every later upsert, whichever side wins the merge.          *)
(***************************************************************************)
StickyNeverCleared ==
    [][\A f \in StickyFields :
          (V1 \in DOMAIN mresult /\ mresult[V1][f] # "") => mresult'[V1][f] # ""]_vars

\* the stored record had a cover, the new observation has none and wins
StickyNeverClearedWitness ==
    /\ mpc >= 2
    /\ MergeExisting.cover_url # "" /\ MergeNew.cover_url = ""
    /\ NewWins(MergeExisting, MergeNew)
    /\ mresult[V1].cover_url = MergeExisting.cover_url
    /\ mresult[V1].title = MergeNew.title

(***************************************************************************)
(* C29.  After any sequence of upserts of observations of one identifier,  *)
(* in any arrival order, the relevance score of the stored record is the   *)
(* maximum relevance score among the observations upserted so far.         *)
(***************************************************************************)
RECURSIVE MaxScoreOf(_, _)
MaxScoreOf(obs, n) ==
    IF n = 1 THEN obs[1].jewish_score
    ELSE Max(obs[n].jewish_score, MaxScoreOf(obs, n - 1))

StoredScoreIsMaximum ==
    mpc >= 1 => mresult[V1].jewish_score = MaxScoreOf(mobs, mpc)

\* the higher score arrived first and a lower one was merged after it
StoredScoreWitness ==
    /\ mpc >= 2
    /\ mobs[1].jewish_score > mobs[mpc].jewish_score
    /\ mresult[V1].jewish_score = mobs[1].jewish_score
    /\ mresult[V1].seen_count = mpc

(***************************************************************************)
(* C22.  A task gets a task_done event only when its page loops ended      *)
(* without an exception; when an exception escapes the page loops          *)
(* (the stop-condition error and quota exhaustion included), a task_error  *)
(* event is appended and then a task_incomplete event; no task has both a  *)
(* task_error and a task_done event.                                       *)
(***************************************************************************)
EndsDoneOrErrorIncomplete(q) ==
    /\ Len(q) >= 1
    /\ \/ q[Len(q)].type = "task_done"
       \/ /\ Len(q) >= 2
          /\ q[Len(q)].type = "task_incomplete"
          /\ q[Len(q) - 1].type = "task_error"

TaskDoneOnlyWithoutError ==
    \A t \in Tasks :
        /\ CountType(ck_log[t], {"task_done"}) >= 1 =>
               CountType(ck_log[t], {"task_error"}) = 0
        /\ Finished(t) => EndsDoneOrErrorIncomplete(ck_log[t])

(***************************************************************************)
(* C23.  Every HTTP request a worker sends is preceded by its own          *)
(* rate-limiter acquisition: a request is sent only as the first attempt   *)
(* of the call that follows self.limiter.take(1.0), never as a retry       *)
(* attempt or as a request of the fallback call.                           *)
(***************************************************************************)
EveryRequestHasOwnTake ==
    [][\A w \in Workers :
          SendsRequest(w) => (wattempt[w] = 1 /\ ~wfallback[w])]_vars

(***************************************************************************)
(* C26.  The number of items a task processes, seen_local as its terminal  *)
(* event reports it, never exceeds max_per_task, for every page size and   *)
(* every sequence of page lengths.                                         *)
(***************************************************************************)
SeenWithinMaxPerTask ==
    \A w \in Workers : wpc[w] = "finally" => wseen[w] <= MaxPerTask

(***************************************************************************)
(* SpecReadLog: the head of Harvester.run on a checkpoint file that can    *)
(* hold any line: events, lines json.loads rejects, and lines that are     *)
(* valid JSON but no object (a number, a list).                            *)
(***************************************************************************)
AnyLines == ResumeLines \cup {NonObjectLine}

InitReadLog ==
    /\ \E n \in 0..MaxLogLen : rlog \in [1..n -> AnyLines]
    /\ rresume \in BOOLEAN
    /\ rtasks \in TaskLists
    /\ rwork = <<>>
    /\ rpc = "start"

ReadLogInit == InitReadLog /\ InitStore /\ IdleMerge /\ IdleRun /\ IdleExt

SpecReadLog == ReadLogInit /\ [][ResumeNext]_vars

\* the non-empty task ids of the task_done events of the log
TaskDoneIds(log) ==
    {log[i].task_id : i \in {j \in 1..Len(log) :
                               /\ log[j].kind = "event"
                               /\ log[j].type = "task_done"
                               /\ log[j].task_id # ""}}

(***************************************************************************)
(* C24.  read_completed_tasks returns exactly the non-empty task ids of    *)
(* the task_done events of the log: a line that is no well-formed event    *)
(* (truncated JSON, or valid JSON that is no object) is skipped and does   *)
(* not keep a task_done event of a later line from being collected.        *)
(***************************************************************************)
ReadCompletedSkipsBadLines ==
    /\ read_completed_tasks(rlog, Len(rlog)) = TaskDoneIds(rlog)
    /\ (rpc = "built" /\ rresume) =>
           SeqSet(rwork) = SeqSet(rtasks) \ TaskDoneIds(rlog)

(***************************************************************************)
(* C28.  The dictionary run() returns holds exactly the rows the final     *)
(* write put in the output file, also when workers that outlived the       *)
(* bounded join are still upserting.                                       *)
(***************************************************************************)
ReturnedRowsAreFinalRows == cpc = "done" => ret_rows = fin_rows

(***************************************************************************)
(* The statistics of a run: the workers' counters (harvest.py 409-411,     *)
(* 515-525, 556) and the coordinator's progress report (harvest.py         *)
(* 581-585) over one StatsTracker and one RowStore.                        *)
(***************************************************************************)

statOthers == <<storeVars, mergeVars, runVars, resumeVars, finalVars, bucketVars, getVars,
                fbVars, lockVars, srcVars,
                verifyVars>>

NumStatTasks == 2
MaxBooks == 2

StatKeys == {"k1", "k2"}

\* run(): self.stats.set_tasks_total(len(work)), the queue filled, the workers started
InitStats ==
    /\ st_pc = [w \in StatWorkers |-> "loop"]
    /\ st_queue \in 1..NumStatTasks
    /\ st_books = [w \in StatWorkers |-> 0]
    /\ st_store = {}
    /\ st_size = [w \in StatWorkers |-> 0]
    /\ st_stats = [NewStats EXCEPT !.tasks_total = st_queue]
    /\ rp_pc = "idle"
    /\ rp_size = 0
    /\ rp_snap = NoSnap

\* q.get_nowait(): a task with some books, or queue.Empty and the worker returns
SWDequeue(w) ==
    /\ st_pc[w] = "loop"
    /\ IF st_queue = 0
         THEN /\ st_pc' = [st_pc EXCEPT ![w] = "exit"]
              /\ UNCHANGED <<st_queue, st_books>>
         ELSE /\ st_queue' = st_queue - 1
              /\ \E n \in 0..MaxBooks : st_books' = [st_books EXCEPT ![w] = n]
              /\ st_pc' = [st_pc EXCEPT ![w] = "books"]
    /\ UNCHANGED <<st_store, st_size, st_stats, rp_pc, rp_size, rp_snap>>

\* for b in books: seen_local += 1; self.stats.inc_books_seen(); the filters that follow
\* either skip the book (continue) or let it through to the upsert
SWSeen(w) ==
    /\ st_pc[w] = "books"
    /\ st_books[w] > 0
    /\ st_books' = [st_books EXCEPT ![w] = @ - 1]
    /\ st_stats' = [st_stats EXCEPT !.books_seen = @ + 1]
    /\ \E keep \in BOOLEAN : st_pc' = [st_pc EXCEPT ![w] = IF keep THEN "upsert" ELSE "books"]
    /\ UNCHANGED <<st_queue, st_store, st_size, rp_pc, rp_size, rp_snap>>

\* self.store.upsert(isbn13, row, ...)
SWUpsert(w) ==
    /\ st_pc[w] = "upsert"
    /\ \E k \in StatKeys : st_store' = st_store \cup {k}
    /\ st_pc' = [st_pc EXCEPT ![w] = "kept"]
    /\ UNCHANGED <<st_queue, st_books, st_size, st_stats, rp_pc, rp_size, rp_snap>>

\* kept_local += 1; self.stats.inc_kept()
SWKept(w) ==
    /\ st_pc[w] = "kept"
    /\ st_stats' = [st_stats EXCEPT !.kept = @ + 1]
    /\ st_pc' = [st_pc EXCEPT ![w] = "size"]
    /\ UNCHANGED <<st_queue, st_books, st_store, st_size, rp_pc, rp_size, rp_snap>>

\* the argument of set_unique13: self.store.size()
SWSize(w) ==
    /\ st_pc[w] = "size"
    /\ st_size' = [st_size EXCEPT ![w] = Cardinality(st_store)]
    /\ st_pc' = [st_pc EXCEPT ![w] = "set_unique13"]
    /\ UNCHANGED <<st_queue, st_books, st_store, st_stats, rp_pc, rp_size, rp_snap>>

\* self.stats.set_unique13(...)
SWSetUnique(w) ==
    /\ st_pc[w] = "set_unique13"
    /\ st_stats' = [st_stats EXCEPT !.unique13 = st_size[w]]
    /\ st_pc' = [st_pc EXCEPT ![w] = "books"]
    /\ UNCHANGED <<st_queue, st_books, st_store, st_size, rp_pc, rp_size, rp_snap>>

\* the books of the task are exhausted; finally: self.stats.inc_tasks_done()
SWFinally(w) ==
    /\ st_pc[w] = "books"
    /\ st_books[w] = 0
    /\ st_stats' = [st_stats EXCEPT !.tasks_done = @ + 1]
    /\ st_pc' = [st_pc EXCEPT ![w] = "loop"]
    /\ UNCHANGED <<st_queue, st_books, st_store, st_size, rp_pc, rp_size, rp_snap>>

StatAlive == \E w \in StatWorkers : st_pc[w] # "exit"

\* while any(t.is_alive() ...): the argument of snapshot: self.store.size()
RpSize ==
    /\ rp_pc = "idle"
    /\ StatAlive
    /\ rp_size' = Cardinality(st_store)
    /\ rp_pc' = "snapshot"
    /\ UNCHANGED <<st_pc, st_queue, st_books, st_store, st_size, st_stats, rp_snap>>

\* StatsTracker.snapshot(unique13=...), one step under the tracker's lock
RpSnapshot ==
    /\ rp_pc = "snapshot"
    /\ st_stats' = [st_stats EXCEPT !.unique13 = rp_size]
    /\ rp_snap' = st_stats'
    /\ rp_pc' = "idle"
    /\ UNCHANGED <<st_pc, st_queue, st_books, st_store, st_size, rp_size>>

StatsInit ==
    /\ InitStats /\ InitStore /\ IdleMerge /\ IdleRun /\ IdleResume
    /\ IdleFinal /\ IdleBucket /\ IdleGet /\ IdleFb /\ IdleLocks /\ IdleSources /\ IdleVerify

StatsNext ==
    /\ \/ \E w \in StatWorkers :
             \/ SWDequeue(w)
             \/ SWSeen(w)
             \/ SWUpsert(w)
             \/ SWKept(w)
             \/ SWSize(w)
             \/ SWSetUnique(w)
             \/ SWFinally(w)
       \/ RpSize
       \/ RpSnapshot
    /\ UNCHANGED statOthers

SpecStats == StatsInit /\ [][StatsNext]_vars

\* C27: every snapshot the progress reporter reads satisfies tasks_done <= tasks_total
\* and unique13 <= kept <= books_seen.  Violated: the reporter reads store.size() after
\* a worker's upsert and takes its snapshot before that worker's inc_kept.
StatsSnapshotConsistent ==
    rp_snap # NoSnap =>
        /\ rp_snap.tasks_done <= rp_snap.tasks_total
        /\ rp_snap.unique13 <= rp_snap.kept
        /\ rp_snap.kept <= rp_snap.books_seen

\* the parts of that ordering that no interleaving breaks
StatsSnapshotOtherBounds ==
    rp_snap # NoSnap =>
        /\ rp_snap.tasks_done <= rp_snap.tasks_total
        /\ rp_snap.kept <= rp_snap.books_seen

(***************************************************************************)
(* verify_rows (enrich/verify.py 61-109): the rows are sorted by           *)
(* rank_score, the first verify_count of them are checked by a thread      *)
(* pool, and the results are collected as the futures complete.            *)
(***************************************************************************)

verifyOthers == <<storeVars, mergeVars, runVars, resumeVars, finalVars, bucketVars, getVars,
                fbVars, lockVars, srcVars, statVars>>

MaxVerifyRows == 3
MaxRowsArg == 2

RankScores == {1, 2}
CoverUrls == {"", "url"}

\* "None" in the list verified
NotVerified == [isbn13 |-> 0, rank_score |-> 0, cover_url |-> ""]

\* list.sort(key=rank_score, reverse=True) is stable: x goes after the rows
\* whose rank_score is not below its own
InsertDesc(s, x) ==
    LET p == Cardinality({j \in DOMAIN s : s[j].rank_score >= x.rank_score})
    IN  SubSeq(s, 1, p) \o <<x>> \o SubSeq(s, p + 1, Len(s))

RECURSIVE SortDesc(_)
SortDesc(s) ==
    IF s = <<>> THEN <<>>
    ELSE InsertDesc(SortDesc(SubSeq(s, 1, Len(s) - 1)), s[Len(s)])

\* verify_count = len(rows); if max_rows and max_rows > 0: min(max_rows, len(rows))
verify_count(n, max_rows) ==
    IF max_rows # 0 /\ max_rows > 0 THEN Min(max_rows, n) ELSE n

\* _verify_one_with_session, when the check of the URL fails
cleared(row) == [row EXCEPT !.cover_url = ""]

\* the results kept in the order the futures complete
store_result_in_completion_order(verified, idx, n_done, row) ==
    [verified EXCEPT ![n_done + 1] = row]

\* verified[idx] = row
store_result(verified, idx, n_done, row) == [verified EXCEPT ![idx] = row]

InitVerify ==
    /\ v_pc = "start"
    /\ \E n \in 0..MaxVerifyRows :
         \E scores \in [1..n -> RankScores], covers \in [1..n -> CoverUrls] :
           v_input = [i \in 1..n |->
                        [isbn13 |-> i, rank_score |-> scores[i], cover_url |-> covers[i]]]
    /\ v_max_rows \in (0 - 1)..MaxRowsArg
    /\ v_rows = <<>>
    /\ v_verified = <<>>
    /\ v_pending = {}
    /\ v_order = <<>>
    /\ v_failures = 0
    /\ v_results = <<>>

\* verify_rows up to the submission of the futures; an empty input returns []
VStart ==
    /\ v_pc = "start"
    /\ v_rows' = SortDesc(v_input)
    /\ IF v_input = <<>>
         THEN /\ v_pc' = "done"
              /\ UNCHANGED <<v_verified, v_pending>>
         ELSE LET count == verify_count(Len(v_input), v_max_rows)
              IN  /\ v_verified' = [i \in 1..count |-> NotVerified]
                  /\ v_pending' = 1..count
                  /\ v_pc' = "pool"
    /\ UNCHANGED <<v_input, v_max_rows, v_order, v_failures, v_results>>

\* as_completed yields the future of index idx: any of those still pending;
\* _verify_row returned the row (no URL, or the check passed) or the cleared row
VComplete(idx) ==
    /\ v_pc = "pool"
    /\ idx \in v_pending
    /\ \E ok \in BOOLEAN :
         /\ v_rows[idx].cover_url = "" => ok
         /\ LET row == IF ok THEN v_rows[idx] ELSE cleared(v_rows[idx])
            IN  v_verified' = store_result(v_verified, idx, Len(v_order), row)
         /\ v_failures' = IF ok THEN v_failures ELSE v_failures + 1
    /\ v_pending' = v_pending \ {idx}
    /\ v_order' = Append(v_order, idx)
    /\ UNCHANGED <<v_pc, v_input, v_max_rows, v_rows, v_results>>

\* results = [r for r in verified if r is not None]; results.extend(rows[verify_count:])
VReturn ==
    /\ v_pc = "pool"
    /\ v_pending = {}
    /\ LET count == Len(v_verified)
           kept  == SelectSeq(v_verified, LAMBDA r : r # NotVerified)
       IN  v_results' = IF count < Len(v_rows)
                          THEN kept \o SubSeq(v_rows, count + 1, Len(v_rows))
                          ELSE kept
    /\ v_pc' = "done"
    /\ UNCHANGED <<v_input, v_max_rows, v_rows, v_verified, v_pending, v_order, v_failures>>

VerifyInit ==
    /\ InitVerify /\ InitStore /\ IdleMerge /\ IdleRun /\ IdleResume
    /\ IdleFinal /\ IdleBucket /\ IdleGet /\ IdleFb /\ IdleLocks /\ IdleSources /\ IdleStats

VerifyNext ==
    /\ \/ VStart
       \/ \E idx \in 1..MaxVerifyRows : VComplete(idx)
       \/ VReturn
    /\ UNCHANGED verifyOthers

SpecVerify == VerifyInit /\ [][VerifyNext]_vars

\* the identifiers of the rows whose verification was collected
VerifiedIds == {v_rows[v_order[k]].isbn13 : k \in DOMAIN v_order}

RowsOf(s) == {s[j] : j \in DOMAIN s}

(***************************************************************************)
(* C30.  verify_rows returns every input row exactly once, ordered by      *)
(* rank_score descending whatever the order in which the verifications     *)
(* complete; when max_rows > 0 only the max_rows highest-ranked rows are   *)
(* verified and the remaining rows are returned unchanged after them.      *)
(***************************************************************************)
VerifyRowsReturnsAllRanked ==
    v_pc = "done" =>
        /\ Len(v_results) = Len(v_input)
        /\ \A i \in DOMAIN v_input :
             /\ Cardinality({j \in DOMAIN v_results :
                               v_results[j].isbn13 = v_input[i].isbn13}) = 1
             /\ \E j \in DOMAIN v_results : v_results[j] \in {v_input[i], cleared(v_input[i])}
        /\ \A j, k \in DOMAIN v_results :
             j < k => v_results[j].rank_score >= v_results[k].rank_score
        /\ v_max_rows > 0 =>
             /\ Cardinality(VerifiedIds) = Min(v_max_rows, Len(v_input))
             /\ VerifiedIds = {v_results[j].isbn13 : j \in 1..Cardinality(VerifiedIds)}
             /\ \A j \in DOMAIN v_results :
                  j > Cardinality(VerifiedIds) => v_results[j] \in RowsOf(v_input)

\* three rows given in ascending rank, max_rows = 2, the two verifications complete
\* in the reverse of the order of submission and one of them fails
VerifyRowsWitness ==
    /\ v_pc = "done"
    /\ Len(v_input) = 3
    /\ v_input[1].rank_score < v_input[3].rank_score
    /\ v_max_rows = 2
    /\ v_order = <<2, 1>>
    /\ v_failures = 1
    /\ Len(v_results) = 3

====
